---- MODULE Spec2Model ----
(***************************************************************************)
(* Verification model of the two-tier multi-NIC crawler.                   *)
(*                                                                         *)
(*   SpecDL     the download manager (package downloader): EnqueueTask,    *)
(*              PersistentEnqueue, multiNICDownloadWorker, the detached    *)
(*              retry goroutines and Shutdown, driven by the document      *)
(*              loop of the crawler's response handler.                    *)
(*   SpecScale  the download scalers (package monitor) and AddWorkers.     *)
(*   SpecCrawl  the crawl (CrawlerTwoTier): Start, the response handlers   *)
(*              and processDiscoveredURL, on sites of a few pages.         *)
(*   SpecDLFair SpecDL with the workers and Shutdown scheduled fairly.     *)
(*   SpecStalled the response handlers on queues that no worker empties.   *)
(*   SpecMain   main from the crawl to PrintFinalStats: a response         *)
(*              handler, the download manager and the scalers together.    *)
(*   SpecDecide the tokenizer coordinator: Decide and its counters.        *)
(*   SpecTok    the tokenizers on one page: ExtractLinks (fast path) and   *)
(*              AnalyzeDocument (slow path).                               *)
(*   SpecPanic  the crawl with response handlers that panic and recover.   *)
(*   SpecNormalize  NormalizeParsedURL on a URL text and on its result.    *)
(*   SpecWorkers  the download manager on two interfaces.                  *)
(*   SpecTick   the download scalers on three interfaces, the queues       *)
(*              filled to every twentieth of their capacity.               *)
(*   SpecLoad   the download scalers on two interfaces, every scaler       *)
(*              scheduled fairly.                                          *)
(*   SpecLatch  the crawl on a site whose pages link back to the seed.     *)
(*   SpecStart  StartWorkers on one to MaxInterfaces interfaces of any     *)
(*              speed classes.                                             *)
(*   SpecAbsolute  makeAbsolute on one raw value and one base URL.         *)
(*   SpecSanitize  SanitizeFilename on one name.                           *)
(*   SpecRoute  the response handlers from Decide to their return: the     *)
(*              coordinator, the tokenizers and the recovery of a panic.   *)
(*                                                                         *)
(* The specifications share the variables; each leaves the variables of    *)
(* the components it does not move as its Init sets them.                  *)
(***************************************************************************)
EXTENDS Integers, Sequences, FiniteSets, Bags, TLC

(***************************************************************************)
(* Configuration (package config) and the sizes of the model.              *)
(***************************************************************************)
\* config.MaxRetries
MaxRetries == 3
\* config.MaxQueueSize: 50000 in the source, scaled so that the queues fill.
MaxQueueSize == 1
\* maxAttempts of PersistentEnqueue: 50 in the source, scaled.
maxAttempts == 2

\* len(m.networkInterfaces): the interfaces the operator selected
NumInterfaces == 1
\* workers StartWorkers starts on each interface
WorkersPerInterface == 1
\* responses whose page links a document, handled concurrently
NumHandlers == 2

\* response handlers of the crawler running at the same time
NumCrawlHandlers == 2
\* config.MaxDepth is drawn from 1 .. MaxDepthBound
MaxDepthBound == 2
\* scalers StartMonitoring starts: 16 in main, scaled
NumScalers == 2
\* response handlers inside Decide at the same time
NumDeciders == 2
\* pages the coordinator routes in a run
MaxDecideCalls == 3
\* the tokenizer calls made on one page
MaxTokCalls == 2
\* the length of the URL texts the normalizer is run on
MaxTextLen == 3
\* the interfaces main may be started on
MaxInterfaces == 8

\* config: the worker pool
InitialDownloadWorkers == 100
MaxDownloadWorkers == 800
ScaleUpAmount == 300
\* config.QueueGrowthThreshold, 0.4, in tenths
QueueGrowthThreshold == 4
\* tokenizer: the fast path scans while i < len(htmlBytes) - 6
ScanMargin == 6
\* utils: the longest name SanitizeFilename returns
MaxNameLen == 200
\* network: WorkerCount of an interface, by its speed class
GigabitWorkerCount == 500
InterfaceWorkerCounts == {200, GigabitWorkerCount, 2000}

\* the IDs of n network interfaces, and of the workers StartWorkers starts on them
InterfaceIDs(n) == 0 .. (n - 1)
WorkerIDs(n) == InterfaceIDs(n) \X (0 .. (WorkersPerInterface - 1))
DocURLs == {"d1", "d2"}

\* capacity of one interface queue (NewManager)
QueueSize == MaxQueueSize \div NumInterfaces
\* a manager on two interfaces, each queue with room for a task
ScaledQueueSize == 2
ScaledInterfaces == 2
\* a manager on three interfaces whose queues hold twenty tasks together, so
\* that the utilization takes every twentieth
TickQueueSize == 11
TickInterfaces == 3

VARIABLES
    \* Manager
    downloadQueues,         \* [Interfaces -> Seq(DownloadTask)]
    priorityQueue,          \* Seq(DownloadTask)
    queueClosed,            \* [Interfaces -> BOOLEAN]: close(queue) was called
    queueCapacity,          \* cap() of the priority queue and of an interface queue
    WorkerCount,            \* [Interfaces -> Nat]: iface.WorkerCount
    priorityClosed,         \* close(m.priorityQueue) was called
    currentInterfaceIndex,  \* kept modulo NumInterfaces, its only use
    downloadedFiles,        \* key set of the map
    pendingDownloads,       \* key set of the map
    failedDownloads,        \* [DocURLs -> Nat], 0 = no entry
    stats,                  \* [downloadAttempts, downloadSuccess, downloadFailed]
    activeWorkers,
    \* goroutines
    wpc, wtask,             \* multiNICDownloadWorker: position and task variable
    retrying,               \* bag of tasks held by sleeping retry goroutines
    persist,                \* bag of running PersistentEnqueue calls: task, attempt, sent, panicked
    handlers,               \* bag of the response handlers in their document loop
    spc, sidx,              \* Manager.Shutdown: position and loop index
    crashed,                \* the process died of an unrecovered panic
    \* history
    accepted,               \* [DocURLs -> Nat]: sends accepted from EnqueueTask / PersistentEnqueue
    returnedTrue,           \* [DocURLs -> Nat]: EnqueueTask calls that returned true
    \* Monitor: the scalers
    scalerPC, scalerAdd,    \* downloadScaler: position and newWorkersTotal
    addedWorkers,           \* history: the workers AddWorkers has started on each interface
    monitorShutdown,        \* close(shutdownChan) of main
    \* CrawlerTwoTier
    MaxDepth,               \* config.MaxDepth, drawn by Init
    site,                   \* the pages of the crawled site: URL -> links
    started,                \* Start() was called
    visitedURLsMap,         \* key set of the map
    firstRequestOnce,       \* the once-latch has fired
    collectorVisited,       \* URLs the collector has already accepted
    frontier,               \* bag of requests the collector has not fetched yet
    rpc, rurl, rdepth, rlinks, \* OnResponse handlers: position, page, depth, links left
    \* history
    issued,                 \* bag of the Visit / Request calls made
    fetched,                \* bag of the URLs fetched
    panicCount,             \* c.panicCount
    panicURLs,              \* the lines of panic_urls.txt
    panicked,               \* history: bag of the responses whose handling panicked
    \* Coordinator
    fastPathCount, slowPathCount, \* the routing counters
    deciding,               \* bag of the Decide calls between their Add(1) and their return
    \* history
    decideCalls,            \* Decide calls made so far
    returned,               \* [decision -> Nat]: Decide calls that have returned it
    \* the tokenizers
    fastPagesProcessed, fastLinksExtracted,
    slowPagesProcessed, slowLinksExtracted, slowDocsDetected,
    tokPage, tokBase,       \* the page the tokenizers are called on and its URL
    fastResult, slowResult, \* the last FastPathResult / SlowPathResult, if any
    tokCalls,               \* tokenizer calls made so far
    \* utils
    normRaw,                \* the URL text handed to url.Parse and NormalizeParsedURL
    normOnce, normTwice,    \* its normalized form, and the normalized form of that
    absRaw, absResult,      \* the raw value handed to makeAbsolute, and its result
    sanName, sanResult      \* the name handed to SanitizeFilename, and its result

\* the download manager and its goroutines, but for the worker count
managerVars == <<downloadQueues, priorityQueue, queueClosed, queueCapacity,
                 WorkerCount,
                 priorityClosed,
                 currentInterfaceIndex, downloadedFiles, pendingDownloads,
                 failedDownloads, stats, wpc, wtask, retrying, persist, handlers,
                 spc, sidx, crashed, accepted, returnedTrue>>
dlVars == <<managerVars, activeWorkers>>
scaleVars == <<scalerPC, scalerAdd, addedWorkers, monitorShutdown>>
utilVars == <<normRaw, normOnce, normTwice, absRaw, absResult,
              sanName, sanResult>>
tokVars == <<fastPagesProcessed, fastLinksExtracted, slowPagesProcessed,
             slowLinksExtracted, slowDocsDetected, tokPage, tokBase,
             fastResult, slowResult, tokCalls, utilVars>>
coordVars == <<fastPathCount, slowPathCount, deciding, decideCalls, returned,
               tokVars>>
panicVars == <<panicCount, panicURLs, panicked>>
crawlVars == <<MaxDepth, site, started, visitedURLsMap, firstRequestOnce,
               collectorVisited, frontier, rpc, rurl, rdepth, rlinks,
               issued, fetched, coordVars, panicVars>>

vars == <<dlVars, scaleVars, crawlVars>>

(***************************************************************************)
(* package downloader                                                      *)
(***************************************************************************)
\* DownloadTask. Depth is only printed and is left out; Tries is a history
\* field counting the attempts made on the task.
DownloadTask(url) ==
    [URL |-> url, Retry |-> 0, Priority |-> FALSE, InterfaceID |-> 0, Tries |-> 0]

NoTask == [URL |-> "", Retry |-> 0, Priority |-> FALSE, InterfaceID |-> 0, Tries |-> 0]

IsDownloadedOrPending(url) ==
    url \in downloadedFiles \/ url \in pendingDownloads

markPendingDownload(url) ==
    pendingDownloads' = pendingDownloads \cup {url}

markDownloadCompleted(url) ==
    /\ pendingDownloads' = pendingDownloads \ {url}
    /\ downloadedFiles' = downloadedFiles \cup {url}

markDownloadFailed(url) ==
    /\ pendingDownloads' = pendingDownloads \ {url}
    /\ failedDownloads' = [failedDownloads EXCEPT ![url] = @ + 1]

\* a non-blocking send finds room
PriorityHasRoom == Len(priorityQueue) < queueCapacity.priority
QueueHasRoom(i) == Len(downloadQueues[i]) < queueCapacity.interface

\* m.networkInterfaces by ID, len(m.networkInterfaces), and the workers started
Interfaces == DOMAIN downloadQueues
lenInterfaces == Cardinality(Interfaces)
Workers == DOMAIN wpc

\* NewManager(networkInterfaces, ...) with config.MaxQueueSize = maxQueueSize;
\* networkInterfaces gives the WorkerCount of each interface
NewManagerWith(networkInterfaces, maxQueueSize) ==
    /\ WorkerCount = networkInterfaces
    /\ downloadQueues = [i \in DOMAIN networkInterfaces |-> << >>]
    /\ priorityQueue = << >>
    /\ queueClosed = [i \in DOMAIN networkInterfaces |-> FALSE]
    /\ queueCapacity = [priority |-> maxQueueSize,
                        interface |-> maxQueueSize
                                       \div Cardinality(DOMAIN networkInterfaces)]
    /\ priorityClosed = FALSE
    /\ currentInterfaceIndex = 0
    /\ downloadedFiles = {}
    /\ pendingDownloads = {}
    /\ failedDownloads = [u \in DocURLs |-> 0]
    /\ stats = [downloadAttempts |-> 0, downloadSuccess |-> 0, downloadFailed |-> 0]

\* NewManager on n interfaces of the 1 Gbps class
NewManagerOn(n, maxQueueSize) ==
    NewManagerWith([i \in InterfaceIDs(n) |-> GigabitWorkerCount], maxQueueSize)

NewManager == NewManagerOn(NumInterfaces, MaxQueueSize)

\* StartWorkers on n interfaces, with the workers of the model
StartWorkersOnAll(n) ==
    /\ wpc = [w \in WorkerIDs(n) |-> "pollPriority"]
    /\ wtask = [w \in WorkerIDs(n) |-> NoTask]

StartWorkers == StartWorkersOnAll(NumInterfaces)

\* the content of a queue that holds n tasks for url
Filled(n, url) == [k \in 1 .. n |-> DownloadTask(url)]

\* the handler is through with its document and returns
HandlerNext(h) ==
    handlers' = handlers (-) SetToBag({h})

\* the handler goes on to pc with the task it holds
HandlerGoes(h, pc, task) ==
    handlers' = (handlers (-) SetToBag({h})) (+) SetToBag({[pc |-> pc, task |-> task]})

\* the escalation left out: the refused task is dropped by the handler
NoEscalation(task) ==
    persist' = persist

\* go c.downloadManager.PersistentEnqueue(task)
GoPersistentEnqueue(task) ==
    persist' = persist (+) SetToBag({[task |-> task, attempt |-> 0, sent |-> FALSE,
                                      panicked |-> FALSE]})

\* OnResponse, document loop: the handler's own IsDownloadedOrPending test
HandlerDocument(h) ==
    /\ ~crashed
    /\ UNCHANGED <<scaleVars, crawlVars>>
    /\ BagIn(h, handlers)
    /\ h.pc = "docs"
    /\ \E u \in DocURLs :
         IF IsDownloadedOrPending(u)
         THEN HandlerNext(h)
         ELSE HandlerGoes(h, "enqueue", DownloadTask(u))
    /\ UNCHANGED <<downloadQueues, priorityQueue, queueClosed, queueCapacity, WorkerCount,
                   priorityClosed,
                   currentInterfaceIndex, downloadedFiles, pendingDownloads,
                   failedDownloads, stats, activeWorkers, wpc, wtask, retrying,
                   persist, spc, sidx, crashed, accepted, returnedTrue>>

\* EnqueueTask, up to the interface selection
EnqueueTaskCheck(h) ==
    /\ ~crashed
    /\ UNCHANGED <<scaleVars, crawlVars>>
    /\ BagIn(h, handlers)
    /\ h.pc = "enqueue"
    /\ IF IsDownloadedOrPending(h.task.URL)
       THEN /\ GoPersistentEnqueue(h.task)
            /\ HandlerNext(h)
            /\ UNCHANGED currentInterfaceIndex
       ELSE /\ currentInterfaceIndex' = (currentInterfaceIndex + 1) % lenInterfaces
            /\ HandlerGoes(h, "send", [h.task EXCEPT !.InterfaceID = currentInterfaceIndex'])
            /\ UNCHANGED persist
    /\ UNCHANGED <<downloadQueues, priorityQueue, queueClosed, queueCapacity, WorkerCount,
                   priorityClosed,
                   downloadedFiles, pendingDownloads, failedDownloads, stats,
                   activeWorkers, wpc, wtask, retrying, spc, sidx, crashed,
                   accepted, returnedTrue>>

\* EnqueueTask, the two non-blocking sends
EnqueueTaskSend(h) ==
    LET t == h.task
        i == t.InterfaceID
    IN
    /\ ~crashed
    /\ UNCHANGED <<scaleVars, crawlVars>>
    /\ BagIn(h, handlers)
    /\ h.pc = "send"
    /\ IF queueClosed[i] \/ (~QueueHasRoom(i) /\ priorityClosed)
       THEN /\ crashed' = TRUE
            /\ UNCHANGED <<downloadQueues, priorityQueue, persist, handlers, accepted>>
       ELSE IF QueueHasRoom(i)
       THEN /\ downloadQueues' = [downloadQueues EXCEPT ![i] = Append(@, t)]
            /\ accepted' = [accepted EXCEPT ![t.URL] = @ + 1]
            /\ HandlerGoes(h, "mark", t)
            /\ UNCHANGED <<priorityQueue, persist, crashed>>
       ELSE IF PriorityHasRoom
       THEN /\ priorityQueue' = Append(priorityQueue, t)
            /\ accepted' = [accepted EXCEPT ![t.URL] = @ + 1]
            /\ HandlerGoes(h, "mark", t)
            /\ UNCHANGED <<downloadQueues, persist, crashed>>
       ELSE /\ GoPersistentEnqueue(t)
            /\ HandlerNext(h)
            /\ UNCHANGED <<downloadQueues, priorityQueue, crashed, accepted>>
    /\ UNCHANGED <<queueClosed, queueCapacity, WorkerCount,
                   priorityClosed, currentInterfaceIndex,
                   downloadedFiles, pendingDownloads, failedDownloads, stats,
                   activeWorkers, wpc, wtask, retrying, spc, sidx, returnedTrue>>

\* EnqueueTask, after the accepted send: markPendingDownload, return true
EnqueueTaskMark(h) ==
    /\ ~crashed
    /\ UNCHANGED <<scaleVars, crawlVars>>
    /\ BagIn(h, handlers)
    /\ h.pc = "mark"
    /\ markPendingDownload(h.task.URL)
    /\ HandlerNext(h)
    /\ returnedTrue' = [returnedTrue EXCEPT ![h.task.URL] = @ + 1]
    /\ UNCHANGED <<downloadQueues, priorityQueue, queueClosed, queueCapacity, WorkerCount,
                   priorityClosed,
                   currentInterfaceIndex, downloadedFiles, failedDownloads,
                   stats, activeWorkers, wpc, wtask, retrying, persist, spc,
                   sidx, crashed, accepted>>

\* the interface queues PersistentEnqueue finds with room, in index order
FirstRoom == CHOOSE i \in Interfaces :
    /\ QueueHasRoom(i)
    /\ \A j \in Interfaces : j < i => ~QueueHasRoom(j)

\* PersistentEnqueue: one iteration of the attempt loop
PersistentAttempt(p) ==
    LET rest == persist (-) SetToBag({p})
        sent == rest (+) SetToBag({[p EXCEPT !.sent = TRUE]})
        panic == rest (+) SetToBag({[p EXCEPT !.panicked = TRUE]})
        next == IF p.attempt + 1 < maxAttempts
                THEN rest (+) SetToBag({[p EXCEPT !.attempt = @ + 1]})
                ELSE rest
    IN
    /\ ~crashed
    /\ UNCHANGED <<scaleVars, crawlVars>>
    /\ BagIn(p, persist)
    /\ ~p.sent
    /\ IF priorityClosed
       THEN /\ crashed' = TRUE
            /\ persist' = panic
            /\ UNCHANGED <<downloadQueues, priorityQueue, accepted>>
       ELSE IF PriorityHasRoom
       THEN /\ priorityQueue' = Append(priorityQueue, p.task)
            /\ persist' = sent
            /\ accepted' = [accepted EXCEPT ![p.task.URL] = @ + 1]
            /\ UNCHANGED <<downloadQueues, crashed>>
       ELSE IF \E i \in Interfaces : queueClosed[i] /\ \A j \in Interfaces : j < i => ~QueueHasRoom(j)
       THEN /\ crashed' = TRUE
            /\ persist' = panic
            /\ UNCHANGED <<downloadQueues, priorityQueue, accepted>>
       ELSE IF \E i \in Interfaces : QueueHasRoom(i)
       THEN /\ downloadQueues' = [downloadQueues EXCEPT ![FirstRoom] = Append(@, p.task)]
            /\ persist' = sent
            /\ accepted' = [accepted EXCEPT ![p.task.URL] = @ + 1]
            /\ UNCHANGED <<priorityQueue, crashed>>
       ELSE /\ persist' = next
            /\ UNCHANGED <<downloadQueues, priorityQueue, crashed, accepted>>
    /\ UNCHANGED <<queueClosed, queueCapacity, WorkerCount,
                   priorityClosed, currentInterfaceIndex,
                   downloadedFiles, pendingDownloads, failedDownloads, stats,
                   activeWorkers, wpc, wtask, retrying, handlers,
                   spc, sidx, returnedTrue>>

\* PersistentEnqueue: markPendingDownload after the accepted send, return
PersistentMark(p) ==
    /\ ~crashed
    /\ UNCHANGED <<scaleVars, crawlVars>>
    /\ BagIn(p, persist)
    /\ p.sent
    /\ markPendingDownload(p.task.URL)
    /\ persist' = persist (-) SetToBag({p})
    /\ UNCHANGED <<downloadQueues, priorityQueue, queueClosed, queueCapacity, WorkerCount,
                   priorityClosed,
                   currentInterfaceIndex, downloadedFiles, failedDownloads,
                   stats, activeWorkers, wpc, wtask, retrying, handlers, spc, sidx, crashed, accepted, returnedTrue>>

\* processTask: the worker holds the received task, passes the rate limiter
\* and counts the attempt; downloadDocument is then in progress
processTask(w, task) ==
    /\ wtask' = [wtask EXCEPT ![w] = [task EXCEPT !.Tries = @ + 1]]
    /\ stats' = [stats EXCEPT !.downloadAttempts = @ + 1]
    /\ wpc' = [wpc EXCEPT ![w] = "download"]

\* worker loop: the non-blocking receive from the priority queue
WorkerPollPriority(w) ==
    /\ ~crashed
    /\ UNCHANGED <<scaleVars, crawlVars>>
    /\ wpc[w] = "pollPriority"
    /\ IF Len(priorityQueue) > 0
       THEN /\ priorityQueue' = Tail(priorityQueue)
            /\ processTask(w, Head(priorityQueue))
       ELSE /\ wpc' = [wpc EXCEPT ![w] = "pollInterface"]
            /\ UNCHANGED <<wtask, priorityQueue, stats>>
    /\ UNCHANGED <<downloadQueues, queueClosed, queueCapacity, WorkerCount,
                   priorityClosed,
                   currentInterfaceIndex, downloadedFiles, pendingDownloads,
                   failedDownloads, activeWorkers, retrying, persist,
                   handlers, spc, sidx, crashed, accepted, returnedTrue>>

\* a worker that returns whenever it finds no work
NoWorkAvailable(i) == TRUE

\* the receive from the empty interface queue i reports it closed (!ok)
ReceiveClosed(i) == queueClosed[i]

\* a worker that receives from the queue of the first interface
FirstInterfaceQueue(w) == 0

\* m.downloadQueues[interfaceIdx]: the queue of the interface the worker was
\* started on
InterfaceQueue(w) == w[1]

\* worker loop: the non-blocking receive from the worker's interface queue
WorkerPollInterface(w) ==
    LET i == InterfaceQueue(w) IN
    /\ ~crashed
    /\ UNCHANGED <<scaleVars, crawlVars>>
    /\ wpc[w] = "pollInterface"
    /\ IF Len(downloadQueues[i]) > 0
       THEN /\ downloadQueues' = [downloadQueues EXCEPT ![i] = Tail(@)]
            /\ processTask(w, Head(downloadQueues[i]))
            /\ UNCHANGED activeWorkers
       ELSE IF ReceiveClosed(i)
       THEN /\ wpc' = [wpc EXCEPT ![w] = "exited"]
            /\ activeWorkers' = activeWorkers - 1
            /\ UNCHANGED <<wtask, downloadQueues, stats>>
       ELSE /\ wpc' = [wpc EXCEPT ![w] = "pollPriority"]
            /\ UNCHANGED <<wtask, downloadQueues, activeWorkers, stats>>
    /\ UNCHANGED <<priorityQueue, queueClosed, queueCapacity, WorkerCount,
                   priorityClosed,
                   currentInterfaceIndex, downloadedFiles, pendingDownloads,
                   failedDownloads, retrying, persist, handlers, spc, sidx, crashed, accepted, returnedTrue>>

\* a worker that retries once more than config.MaxRetries allows
RetryAllowedOffByOne(task) == task.Retry <= MaxRetries

\* the failure branch retries the task
RetryAllowed(task) == task.Retry < MaxRetries

\* a retry that forgets to raise the priority flag
RetryTaskNoPriority(task, interfaceID) ==
    [task EXCEPT !.Retry = @ + 1, !.InterfaceID = interfaceID]

\* the task the retry goroutine is started with
RetryTask(task, interfaceID) ==
    [task EXCEPT !.Retry = @ + 1, !.Priority = TRUE, !.InterfaceID = interfaceID]

\* a worker that counts a failed attempt only when it gives the URL up
CountFailedOnGiveUp(s, task) ==
    IF task.Retry < MaxRetries THEN s ELSE [s EXCEPT !.downloadFailed = @ + 1]

\* atomic.AddInt64(&m.stats.downloadFailed, 1): every failed attempt counts
CountFailed(s, task) == [s EXCEPT !.downloadFailed = @ + 1]

\* downloadDocument returns and the worker records the outcome
WorkerDownload(w) ==
    LET t == wtask[w] IN
    /\ ~crashed
    /\ UNCHANGED <<scaleVars, crawlVars>>
    /\ wpc[w] = "download"
    /\ \E ok \in BOOLEAN :
         IF ok
         THEN /\ stats' = [stats EXCEPT !.downloadSuccess = @ + 1]
              /\ markDownloadCompleted(t.URL)
              /\ UNCHANGED <<failedDownloads, retrying>>
         ELSE /\ stats' = CountFailed(stats, t)
              /\ IF RetryAllowed(t)
                 THEN /\ retrying' = retrying (+) SetToBag({RetryTask(t, w[1])})
                      /\ UNCHANGED <<pendingDownloads, downloadedFiles, failedDownloads>>
                 ELSE /\ markDownloadFailed(t.URL)
                      /\ UNCHANGED <<downloadedFiles, retrying>>
    /\ wtask' = [wtask EXCEPT ![w] = NoTask]
    /\ wpc' = [wpc EXCEPT ![w] = "pollPriority"]
    /\ UNCHANGED <<downloadQueues, priorityQueue, queueClosed, queueCapacity, WorkerCount,
                   priorityClosed,
                   currentInterfaceIndex, activeWorkers, persist, handlers, spc, sidx, crashed, accepted, returnedTrue>>

\* the retry goroutine wakes up: non-blocking send into the priority queue
RetryRequeue(t) ==
    /\ ~crashed
    /\ UNCHANGED <<scaleVars, crawlVars>>
    /\ BagIn(t, retrying)
    /\ IF priorityClosed
       THEN /\ crashed' = TRUE
            /\ UNCHANGED <<priorityQueue, retrying, pendingDownloads, failedDownloads>>
       ELSE /\ retrying' = retrying (-) SetToBag({t})
            /\ IF PriorityHasRoom
               THEN /\ priorityQueue' = Append(priorityQueue, t)
                    /\ UNCHANGED <<pendingDownloads, failedDownloads>>
               ELSE /\ markDownloadFailed(t.URL)
                    /\ UNCHANGED priorityQueue
            /\ UNCHANGED crashed
    /\ UNCHANGED <<downloadQueues, queueClosed, queueCapacity, WorkerCount,
                   priorityClosed,
                   currentInterfaceIndex, downloadedFiles, stats,
                   activeWorkers, wpc, wtask, persist, handlers, spc,
                   sidx, accepted, returnedTrue>>

\* collector.Wait() has returned: every response handler has finished
CrawlerQuiescent == handlers = EmptyBag

\* monitorSystem.Wait() has returned: the shutdown signal was broadcast and
\* every scaler has left its loop
MonitorReturned ==
    /\ monitorShutdown
    /\ \A k \in 1 .. NumScalers : scalerPC[k] = "returned"

\* Shutdown: close(shutdownChan); close(priorityQueue)
ShutdownClosePriority ==
    /\ ~crashed
    /\ UNCHANGED <<scaleVars, crawlVars>>
    /\ spc = "running"
    /\ CrawlerQuiescent
    /\ MonitorReturned
    /\ priorityClosed' = TRUE
    /\ spc' = IF lenInterfaces > 0 THEN "closeQueues" ELSE "wait"
    /\ UNCHANGED <<downloadQueues, priorityQueue, queueClosed, queueCapacity,
                   WorkerCount,
                   currentInterfaceIndex, downloadedFiles, pendingDownloads,
                   failedDownloads, stats, activeWorkers, wpc, wtask, retrying,
                   persist, handlers, sidx, crashed, accepted, returnedTrue>>

\* Shutdown: one iteration of the loop closing the interface queues
ShutdownCloseQueue ==
    /\ ~crashed
    /\ UNCHANGED <<scaleVars, crawlVars>>
    /\ spc = "closeQueues"
    /\ queueClosed' = [queueClosed EXCEPT ![sidx] = TRUE]
    /\ UNCHANGED <<queueCapacity, WorkerCount>>
    /\ sidx' = sidx + 1
    /\ spc' = IF sidx + 1 = lenInterfaces THEN "wait" ELSE "closeQueues"
    /\ UNCHANGED <<downloadQueues, priorityQueue, priorityClosed,
                   currentInterfaceIndex, downloadedFiles, pendingDownloads,
                   failedDownloads, stats, activeWorkers, wpc, wtask, retrying,
                   persist, handlers, crashed, accepted, returnedTrue>>

\* Shutdown: downloadWG.Wait() returns
ShutdownWait ==
    /\ ~crashed
    /\ UNCHANGED <<scaleVars, crawlVars>>
    /\ spc = "wait"
    /\ \A w \in Workers : wpc[w] = "exited"
    /\ spc' = "done"
    /\ UNCHANGED <<downloadQueues, priorityQueue, queueClosed, queueCapacity, WorkerCount,
                   priorityClosed,
                   currentInterfaceIndex, downloadedFiles, pendingDownloads,
                   failedDownloads, stats, activeWorkers, wpc, wtask, retrying,
                   persist, handlers, sidx, crashed, accepted, returnedTrue>>

\* main, up to the start of the crawl: the manager and its goroutines
ManagerInit ==
    /\ NewManager
    /\ StartWorkers
    /\ retrying = EmptyBag
    /\ persist = EmptyBag
    /\ spc = "running"
    /\ sidx = 0
    /\ crashed = FALSE
    /\ accepted = [u \in DocURLs |-> 0]
    /\ returnedTrue = [u \in DocURLs |-> 0]

\* the response handlers of the crawl's pages, each at its document loop
HandlersStart ==
    handlers = [h \in {[pc |-> "docs", task |-> NoTask]} |-> NumHandlers]

\* PrintFinalStats, the last statement of main
PrintFinalStats ==
    /\ ~crashed
    /\ UNCHANGED <<scaleVars, crawlVars>>
    /\ spc = "done"
    /\ spc' = "stats"
    /\ UNCHANGED <<downloadQueues, priorityQueue, queueClosed, queueCapacity, WorkerCount,
                   priorityClosed,
                   currentInterfaceIndex, downloadedFiles, pendingDownloads,
                   failedDownloads, stats, activeWorkers, wpc, wtask, retrying,
                   persist, handlers, sidx, crashed, accepted, returnedTrue>>

(***************************************************************************)
(* package monitor: the download scalers                                   *)
(*                                                                         *)
(* The scalers see the manager through GetQueueStatus and                  *)
(* GetActiveWorkers only. In SpecScale the crawl and the workers are the   *)
(* moves of the queues' fill; in SpecMain they are the handlers and the    *)
(* workers themselves.                                                     *)
(***************************************************************************)
Scalers == 1 .. NumScalers

Min(a, b) == IF a < b THEN a ELSE b

\* workers StartWorkers starts on one interface whose WorkerCount is workerCount
StartWorkersOn(workerCount) ==
    Min(workerCount, (InitialDownloadWorkers \div lenInterfaces) + 100)

\* workers StartWorkers starts on interface i
StartedOnInterface(i) == StartWorkersOn(WorkerCount[i])

\* totalWorkers of StartWorkers after the interfaces in S
RECURSIVE totalWorkers(_)
totalWorkers(S) == IF S = {} THEN 0
                   ELSE LET i == CHOOSE x \in S : TRUE
                        IN  StartedOnInterface(i) + totalWorkers(S \ {i})

\* GetQueueStatus: len() and cap() of the priority queue and of every
\* interface queue, added up
RECURSIVE SumLen(_)
SumLen(S) == IF S = {} THEN 0
             ELSE LET i == CHOOSE x \in S : TRUE
                  IN Len(downloadQueues[i]) + SumLen(S \ {i})
totalQueued == Len(priorityQueue) + SumLen(Interfaces)
totalCapacity == queueCapacity.priority + lenInterfaces * queueCapacity.interface

\* a scaler that acts above the high mark only
UtilizationAboveHighMark(tenths) == 10 * totalQueued > 8 * totalCapacity

\* utilization > tenths / 10, utilization being totalQueued / totalCapacity
UtilizationAbove(tenths) == 10 * totalQueued > tenths * totalCapacity

\* checkAndScaleMultiNIC: the scale amount for the utilization read
ScaleAmount ==
    IF UtilizationAbove(8) THEN ScaleUpAmount * 4
    ELSE IF UtilizationAbove(6) THEN ScaleUpAmount * 2
    ELSE ScaleUpAmount

\* newWorkersTotal, from the worker count read
NewWorkersTotal(currentWorkers) ==
    Min(ScaleAmount, MaxDownloadWorkers - currentWorkers)

\* a tick of downloadScaler: checkAndScaleMultiNIC up to the AddWorkers call
checkAndScaleMultiNIC(k) ==
    /\ ~monitorShutdown
    /\ scalerPC[k] = "tick"
    /\ IF /\ UtilizationAbove(QueueGrowthThreshold)
          /\ activeWorkers < MaxDownloadWorkers
          /\ NewWorkersTotal(activeWorkers) > 0
       THEN /\ scalerPC' = [scalerPC EXCEPT ![k] = "add"]
            /\ scalerAdd' = [scalerAdd EXCEPT ![k] = NewWorkersTotal(activeWorkers)]
       ELSE UNCHANGED <<scalerPC, scalerAdd>>
    /\ UNCHANGED <<managerVars, activeWorkers, addedWorkers, monitorShutdown,
                   crawlVars>>

\* an AddWorkers that drops the remainder
QuotientOnly(i, count) == count \div lenInterfaces

\* AddWorkers: the workers started on interface i, the quotient and one of
\* the remainder
WorkersForInterface(i, count) ==
    LET workersPerInterface == count \div lenInterfaces
        remainder == count % lenInterfaces
    IN  IF i < remainder THEN workersPerInterface + 1 ELSE workersPerInterface

\* the workers the loop of AddWorkers starts on the interfaces S
RECURSIVE StartedOn(_, _)
StartedOn(S, count) ==
    IF S = {} THEN 0
    ELSE LET i == CHOOSE x \in S : TRUE
         IN WorkersForInterface(i, count) + StartedOn(S \ {i}, count)

\* AddWorkers(count): the workers started interface by interface, the counter
\* raised once for each
AddWorkers(k) ==
    /\ scalerPC[k] = "add"
    /\ activeWorkers' = activeWorkers + StartedOn(Interfaces, scalerAdd[k])
    /\ addedWorkers' = [i \in Interfaces |->
                          addedWorkers[i] + WorkersForInterface(i, scalerAdd[k])]
    /\ scalerPC' = [scalerPC EXCEPT ![k] = "tick"]
    /\ scalerAdd' = [scalerAdd EXCEPT ![k] = 0]
    /\ UNCHANGED <<managerVars, monitorShutdown, crawlVars>>

\* downloadScaler: case <-m.shutdownChan
ScalerReturn(k) ==
    /\ monitorShutdown
    /\ scalerPC[k] = "tick"
    /\ scalerPC' = [scalerPC EXCEPT ![k] = "returned"]
    /\ UNCHANGED <<managerVars, activeWorkers, scalerAdd, addedWorkers,
                   monitorShutdown, crawlVars>>

\* main: close(shutdownChan) once the crawl is over
MainCloseShutdownChan ==
    /\ CrawlerQuiescent
    /\ ~monitorShutdown
    /\ monitorShutdown' = TRUE
    /\ UNCHANGED <<managerVars, activeWorkers, scalerPC, scalerAdd, addedWorkers,
                   crawlVars>>

\* the crawl enqueues and the workers dequeue: the fill of the queues moves
QueueMoves ==
    /\ ~monitorShutdown
    /\ \E n \in 0 .. queueCapacity.priority, m \in 0 .. queueCapacity.interface :
         /\ priorityQueue' = Filled(n, "d1")
         /\ downloadQueues' = [i \in Interfaces |-> Filled(m, "d1")]
    /\ <<priorityQueue, downloadQueues>>' # <<priorityQueue, downloadQueues>>
    /\ UNCHANGED <<queueClosed, queueCapacity, WorkerCount,
                   priorityClosed, currentInterfaceIndex,
                   downloadedFiles, pendingDownloads, failedDownloads, stats,
                   wpc, wtask, retrying, persist, handlers, spc, sidx, crashed,
                   accepted, returnedTrue>>
    /\ UNCHANGED <<activeWorkers, scaleVars, crawlVars>>

\* StartMonitoring(scalerCount), for SpecScale
StartMonitoring ==
    /\ scalerPC = [k \in Scalers |-> "tick"]
    /\ scalerAdd = [k \in Scalers |-> 0]
    /\ addedWorkers = [i \in Interfaces |-> 0]
    /\ monitorShutdown = FALSE

\* no monitor: the state of the scalers in the other specifications
ScalersIdle ==
    /\ scalerPC = [k \in Scalers |-> "returned"]
    /\ scalerAdd = [k \in Scalers |-> 0]
    /\ addedWorkers = [i \in Interfaces |-> 0]
    /\ monitorShutdown = TRUE

(***************************************************************************)
(* package utils and the crawler (CrawlerTwoTier)                          *)
(*                                                                         *)
(* A URL string is a sequence of characters. It stands for the absolute    *)
(* URL "https://ex/" followed by the characters, unless it begins with "/":*)
(* then it is the relative reference itself, which parses with no host.    *)
(***************************************************************************)
startURL == <<"s">>
pageA == <<"a">>
pageB == <<"b">>
deep == <<"d">>
startFragment == <<"s", "#", "f">>
deepQuery == <<"d", "?", "q">>
deepUpper == <<"D">>
relative == <<"/", "a">>
startEmptyFragment == <<"s", "#">>

RawURLs == {startURL, pageA, pageB, deep, startFragment, deepQuery, deepUpper,
            relative, startEmptyFragment}

\* position of the first c in str, 0 if there is none
RECURSIVE IndexFrom(_, _, _)
IndexFrom(str, c, i) ==
    IF i > Len(str) THEN 0
    ELSE IF str[i] = c THEN i
    ELSE IndexFrom(str, c, i + 1)

Index(str, c) == IndexFrom(str, c, 1)

\* strings.LastIndex(str, c) + 1: the position of the last c, 0 if none
RECURSIVE LastIndexFrom(_, _, _)
LastIndexFrom(str, c, i) ==
    IF i = 0 THEN 0
    ELSE IF str[i] = c THEN i
    ELSE LastIndexFrom(str, c, i - 1)

\* a parser that cuts the fragment at the last "#"
LastFragmentIndex(raw) == LastIndexFrom(raw, "#", Len(raw))

\* url.Parse: the fragment begins at the first "#"
FragmentIndex(raw) == Index(raw, "#")

\* strings.Contains
Contains(str, substr) ==
    \E i \in 1 .. (Len(str) - Len(substr) + 1) :
        SubSeq(str, i, i + Len(substr) - 1) = substr

\* url.Parse: the fragment is cut at the first "#", the query at the first "?"
Parse(raw) ==
    LET h == FragmentIndex(raw)
        rest == IF h = 0 THEN raw ELSE SubSeq(raw, 1, h - 1)
        q == Index(rest, "?")
    IN  [Host |-> IF raw # << >> /\ raw[1] = "/" THEN "" ELSE "ex",
         Path |-> IF q = 0 THEN rest ELSE SubSeq(rest, 1, q - 1),
         ForceQuery |-> q # 0 /\ q = Len(rest),
         RawQuery |-> IF q = 0 THEN << >> ELSE SubSeq(rest, q + 1, Len(rest)),
         Fragment |-> IF h = 0 THEN << >> ELSE SubSeq(raw, h + 1, Len(raw))]

\* (*url.URL).String
String(u) ==
    u.Path
    \o (IF u.ForceQuery \/ u.RawQuery # << >> THEN <<"?">> \o u.RawQuery ELSE << >>)
    \o (IF u.Fragment # << >> THEN <<"#">> \o u.Fragment ELSE << >>)

\* strings.ToLower, on the letters of the model
ToLowerChar(c) ==
    CASE c = "A" -> "a" [] c = "B" -> "b" [] c = "D" -> "d" [] c = "S" -> "s"
      [] c = "Tag" -> "tag" [] c = "Paper" -> "paper"
      [] OTHER -> c

ToLower(str) == [i \in 1 .. Len(str) |-> ToLowerChar(str[i])]

NormalizeParsedURL(u) ==
    ToLower(String([u EXCEPT !.Fragment = << >>, !.RawQuery = << >>]))

\* the unit of URL text the normalizer is run on: up to MaxTextLen characters
\* of NormChars. A text that begins with "//" names a host of its own and is
\* left out
NormChars == {"a", "A", "/", "?", "#"}

TextsOfLen(n) == [1 .. n -> NormChars]

URLTexts ==
    {t \in UNION {TextsOfLen(n) : n \in 0 .. MaxTextLen} :
        ~(Len(t) >= 2 /\ t[1] = "/" /\ t[2] = "/")}

\* no URL text is being normalized
NoURLText ==
    /\ normRaw = << >>
    /\ normOnce = << >>
    /\ normTwice = << >>
    /\ absRaw = << >>
    /\ absResult = << >>
    /\ sanName = << >>
    /\ sanResult = << >>

\* url.Parse and NormalizeParsedURL on the URL text
NormalizeText ==
    /\ normOnce = << >>
    /\ normOnce' = <<NormalizeParsedURL(Parse(normRaw))>>
    /\ UNCHANGED <<normRaw, normTwice, absRaw, absResult, sanName, sanResult>>
    /\ UNCHANGED <<fastPagesProcessed, fastLinksExtracted, slowPagesProcessed,
                   slowLinksExtracted, slowDocsDetected, tokPage, tokBase,
                   fastResult, slowResult, tokCalls>>
    /\ UNCHANGED <<fastPathCount, slowPathCount, deciding, decideCalls, returned>>
    /\ UNCHANGED <<MaxDepth, site, started, visitedURLsMap, firstRequestOnce,
                   collectorVisited, frontier, rpc, rurl, rdepth, rlinks,
                   issued, fetched, panicVars>>
    /\ UNCHANGED <<dlVars, scaleVars>>

\* url.Parse and NormalizeParsedURL on the normalized form
NormalizeAgain ==
    /\ normOnce # << >>
    /\ normTwice = << >>
    /\ normTwice' = <<NormalizeParsedURL(Parse(normOnce[1]))>>
    /\ UNCHANGED <<normRaw, normOnce, absRaw, absResult, sanName, sanResult>>
    /\ UNCHANGED <<fastPagesProcessed, fastLinksExtracted, slowPagesProcessed,
                   slowLinksExtracted, slowDocsDetected, tokPage, tokBase,
                   fastResult, slowResult, tokCalls>>
    /\ UNCHANGED <<fastPathCount, slowPathCount, deciding, decideCalls, returned>>
    /\ UNCHANGED <<MaxDepth, site, started, visitedURLsMap, firstRequestOnce,
                   collectorVisited, frontier, rpc, rurl, rdepth, rlinks,
                   issued, fetched, panicVars>>
    /\ UNCHANGED <<dlVars, scaleVars>>

\* the site of the depth scenario: seed -> {a, b} -> deep
DepthSite ==
    [u \in RawURLs |->
        CASE u = startURL -> <<pageA, pageB>>
          [] u = pageA -> <<deep>>
          [] u = pageB -> <<deep>>
          [] OTHER -> << >>]

\* a site whose pages link one page under several spellings, and the seed
VariantSite ==
    [u \in RawURLs |->
        CASE u \in {startURL, startFragment} -> <<pageA, pageB, relative>>
          [] u = pageA -> <<startFragment, deepQuery>>
          [] u = pageB -> <<deepUpper, pageA>>
          [] OTHER -> << >>]

Sites == {DepthSite, VariantSite}

\* a site whose pages link the seed again, spelt with an empty fragment
LatchSite ==
    [u \in RawURLs |->
        CASE u = startURL -> <<pageA, pageB>>
          [] u = pageA -> <<startEmptyFragment, deep>>
          [] u = pageB -> <<startEmptyFragment>>
          [] u = startEmptyFragment -> <<pageA, pageB>>
          [] OTHER -> << >>]

CrawlHandlers == 1 .. NumCrawlHandlers

\* the "depth" entry of a request context: {} when it was never put
NoCtx == {}
CtxDepth(ctx) == IF ctx = {} THEN 0 ELSE CHOOSE d \in ctx : TRUE

hasVisited(url) == url \in visitedURLsMap

\* an OnRequest callback with no latch: every request for the seed is reset
OnRequestNoLatch(r, once) ==
    IF String(Parse(r.url)) = startURL THEN {0} ELSE r.ctx

\* the OnRequest callback: the context request r goes on with, once being
\* the state of firstRequestOnce
OnRequest(r, once) ==
    IF String(Parse(r.url)) = startURL /\ ~once THEN {0} ELSE r.ctx

\* Start: collector.Visit(startURL). The collector remembers the URL string.
Start ==
    /\ ~started
    /\ started' = TRUE
    /\ collectorVisited' = collectorVisited \cup {startURL}
    /\ frontier' = frontier (+) SetToBag({[url |-> startURL, ctx |-> NoCtx]})
    /\ issued' = issued (+) SetToBag({[url |-> startURL, ctx |-> NoCtx,
                                       by |-> "Visit", from |-> 0]})
    /\ UNCHANGED <<MaxDepth, site, visitedURLsMap, firstRequestOnce, rpc, rurl,
                   rdepth, rlinks, fetched>>
    /\ UNCHANGED <<dlVars, scaleVars, coordVars, panicVars>>

\* the collector fetches a request: OnRequest, then OnResponse up to the
\* loop over the URLs the tokenizer extracted
OnResponse(h) ==
    /\ rpc[h] = "idle"
    /\ \E r \in BagToSet(frontier) :
         /\ frontier' = frontier (-) SetToBag({r})
         /\ fetched' = fetched (+) SetToBag({r.url})
         /\ firstRequestOnce' = (firstRequestOnce \/ String(Parse(r.url)) = startURL)
         /\ rurl' = [rurl EXCEPT ![h] = r.url]
         /\ rdepth' = [rdepth EXCEPT ![h] = CtxDepth(OnRequest(r, firstRequestOnce))]
         /\ rlinks' = [rlinks EXCEPT ![h] = site[r.url]]
         /\ rpc' = [rpc EXCEPT ![h] = "links"]
    /\ UNCHANGED <<MaxDepth, site, started, visitedURLsMap, collectorVisited, issued>>
    /\ UNCHANGED <<dlVars, scaleVars, coordVars, panicVars>>

\* the depth test of processDiscoveredURL
DepthAllowedInclusive(currentDepth) == currentDepth <= MaxDepth

DepthAllowed(currentDepth) == currentDepth < MaxDepth

\* the depth put into the context of the new request
NewCtxSameDepth(currentDepth) == {currentDepth}

NewCtx(currentDepth) == {currentDepth + 1}

\* processDiscoveredURL(urlStr, currentDepth) up to the hasVisited test
processDiscoveredURL(h) ==
    LET urlStr == Head(rlinks[h])
        parsed == Parse(urlStr)
        cleanURL == NormalizeParsedURL(parsed)
    IN
    /\ rpc[h] = "links"
    /\ rlinks[h] # << >>
    /\ IF parsed.Host # "" /\ DepthAllowed(rdepth[h]) /\ ~hasVisited(cleanURL)
       THEN /\ rpc' = [rpc EXCEPT ![h] = "save"]
            /\ UNCHANGED rlinks
       ELSE /\ rlinks' = [rlinks EXCEPT ![h] = Tail(@)]
            /\ UNCHANGED rpc
    /\ UNCHANGED <<MaxDepth, site, started, visitedURLsMap, firstRequestOnce,
                   collectorVisited, frontier, rurl, rdepth, issued, fetched>>
    /\ UNCHANGED <<dlVars, scaleVars, coordVars, panicVars>>

saveVisitedURL(h) ==
    /\ rpc[h] = "save"
    /\ visitedURLsMap' = visitedURLsMap \cup {NormalizeParsedURL(Parse(Head(rlinks[h])))}
    /\ rpc' = [rpc EXCEPT ![h] = "request"]
    /\ UNCHANGED <<MaxDepth, site, started, firstRequestOnce, collectorVisited,
                   frontier, rurl, rdepth, rlinks, issued, fetched>>
    /\ UNCHANGED <<dlVars, scaleVars, coordVars, panicVars>>

\* c.collector.Request("GET", urlStr, nil, newCtx, nil): the collector drops a
\* URL string it has already accepted
collectorRequest(h) ==
    LET urlStr == Head(rlinks[h])
        newCtx == NewCtx(rdepth[h])
    IN
    /\ rpc[h] = "request"
    /\ issued' = issued (+) SetToBag({[url |-> urlStr, ctx |-> newCtx,
                                       by |-> "Request", from |-> rdepth[h]]})
    /\ IF urlStr \in collectorVisited
       THEN UNCHANGED <<collectorVisited, frontier>>
       ELSE /\ collectorVisited' = collectorVisited \cup {urlStr}
            /\ frontier' = frontier (+) SetToBag({[url |-> urlStr, ctx |-> newCtx]})
    /\ rlinks' = [rlinks EXCEPT ![h] = Tail(@)]
    /\ rpc' = [rpc EXCEPT ![h] = "links"]
    /\ UNCHANGED <<MaxDepth, site, started, visitedURLsMap, firstRequestOnce,
                   rurl, rdepth, fetched>>
    /\ UNCHANGED <<dlVars, scaleVars, coordVars, panicVars>>

\* the handler has gone through the links and returns
OnResponseReturn(h) ==
    /\ rpc[h] = "links"
    /\ rlinks[h] = << >>
    /\ rpc' = [rpc EXCEPT ![h] = "idle"]
    /\ UNCHANGED <<MaxDepth, site, started, visitedURLsMap, firstRequestOnce,
                   collectorVisited, frontier, rurl, rdepth, rlinks, issued, fetched>>
    /\ UNCHANGED <<dlVars, scaleVars, coordVars, panicVars>>

\* a recover that leaves the counter as it is
ForgetPanic(count) == count

\* the deferred function of OnResponse: c.panicCount++ under panicMutex
CountPanic(count) == count + 1

\* the collector fetches a request and the tokenizer panics on its body:
\* the handler is left for its deferred function with no link processed
OnResponsePanics(h) ==
    /\ rpc[h] = "idle"
    /\ \E r \in BagToSet(frontier) :
         /\ frontier' = frontier (-) SetToBag({r})
         /\ fetched' = fetched (+) SetToBag({r.url})
         /\ firstRequestOnce' = (firstRequestOnce \/ String(Parse(r.url)) = startURL)
         /\ rurl' = [rurl EXCEPT ![h] = r.url]
         /\ rdepth' = [rdepth EXCEPT ![h] = CtxDepth(OnRequest(r, firstRequestOnce))]
         /\ panicked' = panicked (+) SetToBag({[url |-> r.url, by |-> h]})
    /\ rlinks' = [rlinks EXCEPT ![h] = << >>]
    /\ rpc' = [rpc EXCEPT ![h] = "recover"]
    /\ UNCHANGED <<MaxDepth, site, started, visitedURLsMap, collectorVisited,
                   issued, panicCount, panicURLs>>
    /\ UNCHANGED <<dlVars, scaleVars, coordVars>>

\* the deferred function of OnResponse recovers the panic: the counter and
\* the log lines; the handler returns to the collector
RecoverPanic(h) ==
    /\ rpc[h] = "recover"
    /\ panicCount' = CountPanic(panicCount)
    /\ rpc' = [rpc EXCEPT ![h] = "idle"]
    /\ UNCHANGED <<MaxDepth, site, started, visitedURLsMap, firstRequestOnce,
                   collectorVisited, frontier, rurl, rdepth, rlinks, issued,
                   fetched, panicURLs, panicked>>
    /\ UNCHANGED <<dlVars, scaleVars, coordVars>>

(***************************************************************************)
(* package tokenizer: the fast path and the slow path                      *)
(*                                                                         *)
(* A page body and the URLs of the tokenizers are sequences of one-byte    *)
(* characters; the indices of the source count from 0, so that byte i of   *)
(* the source is element i + 1 here. A page is a sequence of items: its    *)
(* body is the text of the items, and the DOM the slow path queries holds  *)
(* the anchors among them.                                                 *)
(***************************************************************************)
href == <<"h", "r", "e", "f", "=">>
hrefMixedCase == <<"H", "r", "E", "f", "=">>
doubleQuote == "\""
singleQuote == "'"
\* quote := byte(0)
NoQuote == "NUL"

javascriptPrefix == <<"j", "a", "v", "a", "s", "c", "r", "i", "p", "t", ":">>
mailtoPrefix == <<"m", "a", "i", "l", "t", "o", ":">>
httpPrefix == <<"h", "t", "t", "p", ":", "/", "/">>
httpsPrefix == <<"h", "t", "t", "p", "s", ":", "/">>
pdfExtension == <<".", "p", "d", "f">>
docExtensions == {pdfExtension}

Letters == {"a", "c", "d", "e", "f", "h", "i", "j", "l", "m", "o", "p", "r",
            "s", "t", "v", "x", "y", "H", "R", "E", "F", "P", "D", "X"}

\* strings.ToLower on the bytes of a body or URL
LowerByte(c) ==
    CASE c = "H" -> "h" [] c = "R" -> "r" [] c = "E" -> "e" [] c = "F" -> "f"
      [] c = "P" -> "p" [] c = "D" -> "d" [] c = "X" -> "x"
      [] OTHER -> c

LowerBytes(str) == [k \in 1 .. Len(str) |-> LowerByte(str[k])]

HasPrefix(str, prefix) ==
    Len(str) >= Len(prefix) /\ SubSeq(str, 1, Len(prefix)) = prefix

HasSuffix(str, suffix) ==
    Len(str) >= Len(suffix)
    /\ SubSeq(str, Len(str) - Len(suffix) + 1, Len(str)) = suffix

\* the URL of a page, as url.Parse gives it
BaseURL(path) ==
    [Error |-> FALSE, Scheme |-> <<"h", "t", "t", "p", "s">>, Opaque |-> << >>,
     Host |-> <<"h">>, Path |-> path, ForceQuery |-> FALSE, RawQuery |-> << >>,
     Fragment |-> << >>]

BaseURLs == {BaseURL(<< >>), BaseURL(<<"/">>), BaseURL(<<"/", "d">>)}

\* (*url.URL).String of a URL with its fields spelled out
URLString(u) ==
    (IF u.Scheme # << >> THEN u.Scheme \o <<":">> ELSE << >>)
    \o (IF u.Opaque # << >> THEN u.Opaque
        ELSE (IF (u.Scheme # << >> \/ u.Host # << >>)
                 /\ (u.Host # << >> \/ u.Path # << >>)
              THEN <<"/", "/">> ELSE << >>)
             \o u.Host
             \o (IF u.Path # << >> /\ u.Path[1] # "/" /\ u.Host # << >>
                 THEN <<"/">> ELSE << >>)
             \o u.Path)
    \o (IF u.ForceQuery \/ u.RawQuery # << >> THEN <<"?">> \o u.RawQuery ELSE << >>)
    \o (IF u.Fragment # << >> THEN <<"#">> \o u.Fragment ELSE << >>)

\* makeAbsolute tests len(rawURL) > 7 before it slices rawURL[0:7]
NoLengthTest(rawURL) == TRUE

LongerThanPrefix(rawURL) == Len(rawURL) > 7

\* makeAbsolute: the URL, or Panic for an index out of range
Panic == <<"panic">>

makeAbsolute(rawURL, base) ==
    IF LongerThanPrefix(rawURL) /\ Len(rawURL) < 7 THEN Panic
    ELSE IF LongerThanPrefix(rawURL)
            /\ SubSeq(rawURL, 1, 7) \in {httpPrefix, httpsPrefix} THEN rawURL
    ELSE IF Len(rawURL) > 2 /\ SubSeq(rawURL, 1, 2) = <<"/", "/">>
    THEN base.Scheme \o <<":">> \o rawURL
    ELSE IF Len(rawURL) > 0 /\ rawURL[1] = "/"
    THEN base.Scheme \o <<":", "/", "/">> \o base.Host \o rawURL
    ELSE LET baseStr == URLString(base) IN
         IF Len(baseStr) = 0 THEN Panic
         ELSE IF baseStr[Len(baseStr)] = "/" THEN baseStr \o rawURL
         ELSE baseStr \o <<"/">> \o rawURL

matchesHref(b) ==
    IF Len(b) < 5 THEN FALSE
    ELSE /\ b[1] \in {"h", "H"}
         /\ b[2] \in {"r", "R"}
         /\ b[3] \in {"e", "E"}
         /\ b[4] \in {"f", "F"}
         /\ b[5] = "="

\* ExtractLinks: the index at which the scan of the value stops
RECURSIVE ValueEnd(_, _, _)
ValueEnd(htmlBytes, i, quote) ==
    IF i < Len(htmlBytes)
    THEN IF quote # NoQuote
         THEN IF htmlBytes[i + 1] = quote THEN i
              ELSE ValueEnd(htmlBytes, i + 1, quote)
         ELSE IF htmlBytes[i + 1] \in {" ", ">"} THEN i
              ELSE ValueEnd(htmlBytes, i + 1, quote)
    ELSE i

\* ExtractLinks: the filter of the raw values
FastPathKeeps(rawURL) ==
    /\ Len(rawURL) > 0
    /\ rawURL[1] # "#"
    /\ ~HasPrefix(rawURL, javascriptPrefix)
    /\ ~HasPrefix(rawURL, mailtoPrefix)

\* a scan that goes on inside the value it has just read
ResumeInValue(urlStart, valueEnd) == urlStart

\* ExtractLinks: the index the scan goes on from after a value, i++ included
ResumeAfter(urlStart, valueEnd) == valueEnd + 1

\* ExtractLinks: the scan loop from index i on, which runs while
\* i < len(htmlBytes) - margin. found holds the URLs appended
\* so far and, for each, the raw value it came from (from) and the index of
\* its href= match (at); panicked is set by an index out of range
RECURSIVE ScanFrom(_, _, _, _, _)
ScanFrom(htmlBytes, baseURL, i, found, margin) ==
    IF ~(i < Len(htmlBytes) - margin) THEN found
    ELSE IF i < 0 \/ i > Len(htmlBytes) THEN [found EXCEPT !.panicked = TRUE]
    ELSE IF ~matchesHref(SubSeq(htmlBytes, i + 1, Len(htmlBytes)))
    THEN ScanFrom(htmlBytes, baseURL, i + 1, found, margin)
    ELSE LET j == i + 5
             quoted == j < Len(htmlBytes)
                       /\ htmlBytes[j + 1] \in {doubleQuote, singleQuote}
             quote == IF quoted THEN htmlBytes[j + 1] ELSE NoQuote
             urlStart == IF quoted THEN j + 1 ELSE j
             valueEnd == ValueEnd(htmlBytes, urlStart, quote)
             rawURL == SubSeq(htmlBytes, urlStart + 1, valueEnd)
             absURL == makeAbsolute(rawURL, baseURL)
         IN  IF valueEnd > urlStart /\ FastPathKeeps(rawURL)
             THEN IF absURL = Panic THEN [found EXCEPT !.panicked = TRUE]
                  ELSE IF absURL # << >>
                  THEN ScanFrom(htmlBytes, baseURL, ResumeAfter(urlStart, valueEnd),
                                [found EXCEPT !.URLs = Append(@, absURL),
                                              !.from = Append(@, rawURL),
                                              !.at = Append(@, i)],
                                margin)
                  ELSE ScanFrom(htmlBytes, baseURL, ResumeAfter(urlStart, valueEnd), found,
                            margin)
             ELSE ScanFrom(htmlBytes, baseURL, ResumeAfter(urlStart, valueEnd), found,
                            margin)

\* ExtractLinks(htmlBytes, baseURL): the FastPathResult
ExtractLinks(htmlBytes, baseURL) ==
    ScanFrom(htmlBytes, baseURL, 0,
             [URLs |-> << >>, from |-> << >>, at |-> << >>, panicked |-> FALSE],
             ScanMargin)

\* url.Parse failed
ParseError == [Error |-> TRUE]

\* getScheme: the position of the ":" that ends the scheme of str, 0 if str
\* has no scheme, -1 for the error of a ":" in front
RECURSIVE SchemeEnd(_, _)
SchemeEnd(str, i) ==
    IF i > Len(str) THEN 0
    ELSE IF str[i] \in Letters THEN SchemeEnd(str, i + 1)
    ELSE IF str[i] = ":" THEN (IF i = 1 THEN -1 ELSE i)
    ELSE 0

\* url.Parse of an href value: fragment, scheme, query, authority and path
ParseURL(rawURL) ==
    LET h == Index(rawURL, "#")
        noFragment == IF h = 0 THEN rawURL ELSE SubSeq(rawURL, 1, h - 1)
        c == SchemeEnd(noFragment, 1)
        scheme == IF c > 0 THEN LowerBytes(SubSeq(noFragment, 1, c - 1)) ELSE << >>
        afterScheme == IF c > 0 THEN SubSeq(noFragment, c + 1, Len(noFragment))
                       ELSE noFragment
        q == Index(afterScheme, "?")
        rest == IF q = 0 THEN afterScheme ELSE SubSeq(afterScheme, 1, q - 1)
        authority == HasPrefix(rest, <<"/", "/">>) /\ ~HasPrefix(rest, <<"/", "/", "/">>)
        afterSlashes == SubSeq(rest, 3, Len(rest))
        s == Index(afterSlashes, "/")
        colon == Index(rest, ":")
        slash == Index(rest, "/")
    IN  IF c = -1 THEN ParseError
        ELSE IF scheme = << >> /\ colon # 0 /\ (slash = 0 \/ colon < slash)
        THEN ParseError
        ELSE [Error |-> FALSE,
              Scheme |-> scheme,
              Opaque |-> IF scheme # << >> /\ ~HasPrefix(rest, <<"/">>) THEN rest ELSE << >>,
              Host |-> IF ~authority THEN << >>
                       ELSE IF s = 0 THEN afterSlashes
                       ELSE SubSeq(afterSlashes, 1, s - 1),
              Path |-> IF scheme # << >> /\ ~HasPrefix(rest, <<"/">>) THEN << >>
                       ELSE IF ~authority THEN rest
                       ELSE IF s = 0 THEN << >>
                       ELSE SubSeq(afterSlashes, s, Len(afterSlashes)),
              ForceQuery |-> q # 0 /\ q = Len(afterScheme),
              RawQuery |-> IF q = 0 THEN << >>
                           ELSE SubSeq(afterScheme, q + 1, Len(afterScheme)),
              Fragment |-> IF h = 0 THEN << >> ELSE SubSeq(rawURL, h + 1, Len(rawURL))]

\* resolvePath(base, ref); the paths of the model hold no "." or ".." segment
resolvePath(base, ref) ==
    LET full == IF ref = << >> THEN base
                ELSE IF ref[1] # "/"
                THEN SubSeq(base, 1, LastIndexFrom(base, "/", Len(base))) \o ref
                ELSE ref
    IN  IF full = << >> THEN << >>
        ELSE IF full[1] = "/" THEN full
        ELSE <<"/">> \o full

\* (*url.URL).ResolveReference
ResolveReference(base, ref) ==
    LET sameDocument == ref.Path = << >> /\ ~ref.ForceQuery /\ ref.RawQuery = << >> IN
    IF ref.Scheme # << >> THEN ref
    ELSE IF ref.Host # << >> THEN [ref EXCEPT !.Scheme = base.Scheme]
    ELSE [ref EXCEPT !.Scheme = base.Scheme,
                     !.Host = base.Host,
                     !.Path = resolvePath(base.Path, ref.Path),
                     !.RawQuery = IF sameDocument THEN base.RawQuery ELSE @,
                     !.Fragment = IF sameDocument /\ @ = << >> THEN base.Fragment ELSE @]

\* isDocument of the slow path
isDocument(urlStr, extensions) ==
    \E ext \in extensions : HasSuffix(LowerBytes(urlStr), ext)

\* utils.IsDocumentURL
IsDocumentURL(docURL, extensions) ==
    \E ext \in extensions :
        \/ HasSuffix(LowerBytes(docURL), ext)
        \/ Contains(LowerBytes(docURL), ext \o <<"?">>)
        \/ Contains(LowerBytes(docURL), ext \o <<"&">>)

\* getExtension: "." and the text after the last ".", cut at its first "?"
getExtension(urlStr) ==
    LET d == LastIndexFrom(urlStr, ".", Len(urlStr))
        ext == SubSeq(urlStr, d + 1, Len(urlStr))
        q == Index(ext, "?")
    IN  IF d = 0 THEN << >>
        ELSE <<".">> \o (IF q = 0 THEN ext ELSE SubSeq(ext, 1, q - 1))

\* the items of a page: an anchor element and a run of text
AnchorItem(attribute, quote, value) ==
    [text |-> <<"<", "a", " ">> \o attribute \o quote \o value \o quote \o <<">">>,
     anchor |-> TRUE, href |-> value]

TextItem(text) == [text |-> text, anchor |-> FALSE, href |-> << >>]

hrefPath == <<"/", "p">>
hrefRelative == <<"p">>
hrefFragment == <<"#", "x">>
hrefHash == <<"#">>
hrefJavascript == javascriptPrefix \o <<"x">>
hrefMailto == mailtoPrefix \o <<"x">>
hrefPdf == <<"x">> \o pdfExtension
hrefPdfQuery == hrefPdf \o <<"?", "x", "=", "1">>
hrefPdfAmpersand == hrefPdf \o <<"&", "y">>
hrefPdfUpper == <<"X", ".", "P", "D", "F">>
hrefNested == href \o <<"y">>
hrefAbsolute == httpPrefix \o <<"h", "/", "p">>
hrefEmpty == << >>

HrefValues == {hrefPath, hrefRelative, hrefFragment, hrefHash, hrefJavascript,
               hrefMailto, hrefPdf, hrefPdfQuery, hrefPdfAmpersand, hrefPdfUpper,
               hrefNested, hrefAbsolute, hrefEmpty}

Items ==
    {AnchorItem(href, <<doubleQuote>>, v) : v \in HrefValues}
    \cup {AnchorItem(href, <<singleQuote>>, hrefPath),
          AnchorItem(href, << >>, hrefPath),
          AnchorItem(hrefMixedCase, <<doubleQuote>>, hrefPath),
          TextItem(<<"x">>)}

\* the ends of a body cut off in the middle of an anchor; the DOM parser
\* drops a tag the body ends in
Truncations ==
    {<<"h", "r", "e">>,
     <<"<", "a", " ", "h", "r", "e">>,
     <<"<", "a", " ">> \o href,
     <<"<", "a", " ">> \o href \o <<doubleQuote>>,
     <<"<", "a", " ">> \o href \o <<doubleQuote>> \o hrefPath,
     <<"<", "a", " ">> \o href \o hrefPath,
     <<"<", "a", " ">> \o href \o <<"a">>}

\* the pages: up to two items, cut off or not
Pages ==
    {s \o t : s \in {<< >>} \cup {<<a>> : a \in Items}
                            \cup {<<a, b>> : a \in Items, b \in Items},
              t \in {<< >>} \cup {<<TextItem(e)>> : e \in Truncations}}

\* the bytes of a page
RECURSIVE Body(_)
Body(p) == IF p = << >> THEN << >> ELSE Head(p).text \o Body(Tail(p))

\* doc.Find("a[href]"): the href values of the anchors in document order
RECURSIVE Anchors(_)
Anchors(p) ==
    IF p = << >> THEN << >>
    ELSE IF Head(p).anchor THEN <<Head(p).href>> \o Anchors(Tail(p))
    ELSE Anchors(Tail(p))

\* AnalyzeDocument: the Each callback on the anchors left, result being the
\* SlowPathResult so far
RECURSIVE EachAnchor(_, _, _, _)
EachAnchor(hrefs, baseURL, extensions, result) ==
    IF hrefs = << >> THEN result
    ELSE LET value == Head(hrefs)
             ref == ParseURL(value)
             urlStr == URLString(ResolveReference(baseURL, ref))
             linked == [result EXCEPT !.URLs = Append(@, urlStr),
                                      !.from = Append(@, value)]
         IN  IF value = << >> \/ value = <<"#">>
                \/ HasPrefix(value, javascriptPrefix)
                \/ HasPrefix(value, mailtoPrefix)
                \/ ref.Error
             THEN EachAnchor(Tail(hrefs), baseURL, extensions, result)
             ELSE IF isDocument(urlStr, extensions)
             THEN EachAnchor(Tail(hrefs), baseURL, extensions,
                             [linked EXCEPT !.Documents =
                                 Append(@, [URL |-> urlStr,
                                            Extension |-> getExtension(urlStr)])])
             ELSE EachAnchor(Tail(hrefs), baseURL, extensions, linked)

\* AnalyzeDocument(htmlBytes, baseURL, docExtensions) on the DOM of the page;
\* from is the href value each URL came from
AnalyzeDocument(p, baseURL, extensions) ==
    EachAnchor(Anchors(p), baseURL, extensions,
               [URLs |-> << >>, Documents |-> << >>, from |-> << >>])

\* NewFastPathTokenizer and NewSlowPathTokenizer
NewTokenizers ==
    /\ fastPagesProcessed = 0
    /\ fastLinksExtracted = 0
    /\ slowPagesProcessed = 0
    /\ slowLinksExtracted = 0
    /\ slowDocsDetected = 0
    /\ fastResult = << >>
    /\ slowResult = << >>
    /\ tokCalls = 0

\* no page is handed to the tokenizers
NoPage ==
    /\ tokPage = << >>
    /\ tokBase = BaseURL(<< >>)
    /\ NoURLText

\* ExtractLinks is called on the page: the result and the counters. A panic
\* leaves the function before the counters are reached
ExtractLinksCall ==
    /\ tokCalls < MaxTokCalls
    /\ LET result == ExtractLinks(Body(tokPage), tokBase) IN
       /\ fastResult' = <<result>>
       /\ IF result.panicked
          THEN UNCHANGED <<fastPagesProcessed, fastLinksExtracted>>
          ELSE /\ fastPagesProcessed' = fastPagesProcessed + 1
               /\ fastLinksExtracted' = fastLinksExtracted + Len(result.URLs)
    /\ tokCalls' = tokCalls + 1
    /\ UNCHANGED <<tokPage, tokBase, slowPagesProcessed, slowLinksExtracted,
                   slowDocsDetected, slowResult, utilVars>>
    /\ UNCHANGED <<fastPathCount, slowPathCount, deciding, decideCalls, returned>>
    /\ UNCHANGED <<MaxDepth, site, started, visitedURLsMap, firstRequestOnce,
                   collectorVisited, frontier, rpc, rurl, rdepth, rlinks,
                   issued, fetched, panicVars>>
    /\ UNCHANGED <<dlVars, scaleVars>>

\* a slow path that leaves a page it could not parse out of its count
SkipRejected(pages) == pages

\* the parse error branch: s.pagesProcessed.Add(1)
CountRejected(pages) == pages + 1

\* the result AnalyzeDocument starts with, and returns on a parse error
EmptySlowPathResult == [URLs |-> << >>, Documents |-> << >>, from |-> << >>]

\* AnalyzeDocument is called on the page: the result and the counters.
\* goquery.NewDocumentFromReader returns the DOM, or an error
AnalyzeDocumentCall ==
    /\ tokCalls < MaxTokCalls
    /\ \E err \in BOOLEAN :
         IF err
         THEN /\ slowResult' = <<EmptySlowPathResult>>
              /\ slowPagesProcessed' = CountRejected(slowPagesProcessed)
              /\ UNCHANGED <<slowLinksExtracted, slowDocsDetected>>
         ELSE LET result == AnalyzeDocument(tokPage, tokBase, docExtensions) IN
              /\ slowResult' = <<result>>
              /\ slowPagesProcessed' = slowPagesProcessed + 1
              /\ slowLinksExtracted' = slowLinksExtracted + Len(result.URLs)
              /\ slowDocsDetected' = slowDocsDetected + Len(result.Documents)
    /\ tokCalls' = tokCalls + 1
    /\ UNCHANGED <<tokPage, tokBase, fastPagesProcessed, fastLinksExtracted,
                   fastResult, utilVars>>
    /\ UNCHANGED <<fastPathCount, slowPathCount, deciding, decideCalls, returned>>
    /\ UNCHANGED <<MaxDepth, site, started, visitedURLsMap, firstRequestOnce,
                   collectorVisited, frontier, rpc, rurl, rdepth, rlinks,
                   issued, fetched, panicVars>>
    /\ UNCHANGED <<dlVars, scaleVars>>

(***************************************************************************)
(* package tokenizer: the coordinator                                      *)
(*                                                                         *)
(* The text of a page URL is a sequence of pieces: "/", "?", "#" and runs  *)
(* of other characters, cut so that a keyword is a "/" followed by one     *)
(* piece ("/tags" is "/", "tag", "s"). A page URL is the record url.Parse  *)
(* gives, its Host, Path, RawQuery and Fragment being such sequences.      *)
(***************************************************************************)
FastPath == "FastPath"
SlowPath == "SlowPath"

fastPathSizeLimit == 100 * 1024
slowPathSizeLimit == 500 * 1024

\* the path /seg/seg/..., each segment a sequence of pieces
RECURSIVE PathOf(_)
PathOf(segs) ==
    IF segs = << >> THEN << >>
    ELSE <<"/">> \o Head(segs) \o PathOf(Tail(segs))

PageURL(host, segs, query, fragment) ==
    [Host |-> host, Path |-> PathOf(segs), ForceQuery |-> FALSE,
     RawQuery |-> query, Fragment |-> fragment]

\* the pages routed: the rows of the routing table of the documentation, and
\* pages around each rule
PageURLs ==
    {PageURL(<<"a.b">>, <<<<"index">>>>, << >>, << >>),
     PageURL(<<"a.b">>, <<<<"sitemap", ".xml">>>>, << >>, << >>),
     PageURL(<<"a.b">>, <<<<"research">>, <<"notes">>>>, << >>, << >>),
     PageURL(<<"a.b">>, <<<<"blog">>>>, <<"page=2">>, << >>),
     PageURL(<<"a.b">>, <<<<"a">>, <<"b">>, <<"c">>, <<"d">>, <<"e">>>>, << >>, << >>),
     PageURL(<<"a.b">>, <<<<"a">>, <<"b">>, <<"c">>, <<"d">>>>, << >>, << >>),
     PageURL(<<"a.b">>, <<<<"a">>, <<"b">>, <<"c">>>>, << >>, << >>),
     PageURL(<<"a.b">>, <<<<"a">>, <<"b">>>>, << >>, << >>),
     PageURL(<<"a.b">>, <<<<"a">>, <<"b">>, << >>>>, << >>, << >>),
     PageURL(<<"a.b">>, <<<<"x">>>>, << >>, << >>),
     PageURL(<<"a.b">>, <<<<"x">>>>, <<"foo=bar">>, << >>),
     PageURL(<<"a.b">>, << >>, << >>, << >>),
     PageURL(<<"a.b">>, <<<<"a">>, <<"b">>, <<"c">>, <<"Tag", "s">>>>, << >>, << >>),
     PageURL(<<"a.b">>, <<<<"Paper", "s">>, <<"x">>>>, << >>, << >>),
     PageURL(<<"a.b">>, <<<<"a">>, <<"b">>, <<"c">>, <<"d">>>>, << >>, <<"/", "list">>),
     PageURL(<<"archive", ".org">>, <<<<"a">>, <<"b">>, <<"c">>, <<"d">>>>, << >>, << >>),
     PageURL(<<"library", ".b">>, <<<<"x">>>>, << >>, << >>)}

\* len(r.Body): 1 KB, the fast limit, 300 KB, the slow limit, 600 KB
BodySizes == {1024, fastPathSizeLimit, 300 * 1024, slowPathSizeLimit, 600 * 1024}

\* pageURL.String(), scheme and host included
PageString(pageURL) == <<"https:", "/", "/">> \o pageURL.Host \o String(pageURL)

\* len(strings.Split(str, "/")): one more than the "/" in str
LenSplit(str) == Cardinality({i \in 1 .. Len(str) : str[i] = "/"}) + 1

documentKeywords ==
    {<<"/", "document">>, <<"/", "paper">>, <<"/", "publication">>,
     <<"/", "research">>, <<"/", "library">>}

navigationKeywords ==
    {<<"/", "sitemap">>, <<"/", "archive">>, <<"/", "category">>,
     <<"/", "tag">>, <<"/", "index">>, <<"/", "list">>}

\* Decide with the rules on the URL moved before the rules on the size
DecideURLFirst(pageURL, bodySize) ==
    LET urlLower == ToLower(PageString(pageURL)) IN
    IF \E k \in documentKeywords : Contains(urlLower, k) THEN SlowPath
    ELSE IF pageURL.RawQuery # << >> THEN SlowPath
    ELSE IF \E k \in navigationKeywords : Contains(urlLower, k) THEN FastPath
    ELSE IF LenSplit(pageURL.Path) <= 3 THEN FastPath
    ELSE IF bodySize > slowPathSizeLimit THEN SlowPath
    ELSE IF bodySize < fastPathSizeLimit THEN FastPath
    ELSE SlowPath

\* Decide: the path it returns
Decide(pageURL, bodySize) ==
    LET urlLower == ToLower(PageString(pageURL)) IN
    IF bodySize > slowPathSizeLimit THEN SlowPath
    ELSE IF \E k \in documentKeywords : Contains(urlLower, k) THEN SlowPath
    ELSE IF pageURL.RawQuery # << >> THEN SlowPath
    ELSE IF bodySize < fastPathSizeLimit THEN FastPath
    ELSE IF \E k \in navigationKeywords : Contains(urlLower, k) THEN FastPath
    ELSE IF LenSplit(pageURL.Path) <= 3 THEN FastPath
    ELSE SlowPath

\* a coordinator that counts every page as slow
CountSlowAlways(decision) ==
    /\ slowPathCount' = slowPathCount + 1
    /\ UNCHANGED fastPathCount

\* Decide: the Add(1) on the counter of the path it returns
CountDecision(decision) ==
    IF decision = FastPath
    THEN /\ fastPathCount' = fastPathCount + 1
         /\ UNCHANGED slowPathCount
    ELSE /\ slowPathCount' = slowPathCount + 1
         /\ UNCHANGED fastPathCount

\* a response handler calls Decide: the rules are evaluated on the
\* arguments and the counter of the path is incremented
DecideCall ==
    /\ decideCalls < MaxDecideCalls
    /\ BagCardinality(deciding) < NumDeciders
    /\ \E pageURL \in PageURLs, bodySize \in BodySizes :
         LET decision == Decide(pageURL, bodySize) IN
         /\ CountDecision(decision)
         /\ deciding' = deciding (+) SetToBag({[pageURL |-> pageURL,
                                                bodySize |-> bodySize,
                                                decision |-> decision]})
    /\ decideCalls' = decideCalls + 1
    /\ UNCHANGED <<returned, tokVars>>
    /\ UNCHANGED <<MaxDepth, site, started, visitedURLsMap, firstRequestOnce,
                   collectorVisited, frontier, rpc, rurl, rdepth, rlinks,
                   issued, fetched, panicVars>>
    /\ UNCHANGED <<dlVars, scaleVars>>

\* Decide returns its decision to the handler
DecideReturn ==
    /\ \E call \in BagToSet(deciding) :
         /\ deciding' = deciding (-) SetToBag({call})
         /\ returned' = [returned EXCEPT ![call.decision] = @ + 1]
    /\ UNCHANGED <<fastPathCount, slowPathCount, decideCalls, tokVars>>
    /\ UNCHANGED <<MaxDepth, site, started, visitedURLsMap, firstRequestOnce,
                   collectorVisited, frontier, rpc, rurl, rdepth, rlinks,
                   issued, fetched, panicVars>>
    /\ UNCHANGED <<dlVars, scaleVars>>

\* NewCoordinator
NewCoordinator ==
    /\ fastPathCount = 0
    /\ slowPathCount = 0
    /\ deciding = EmptyBag
    /\ decideCalls = 0
    /\ returned = [d \in {FastPath, SlowPath} |-> 0]
    /\ NewTokenizers

\* NewCrawlerTwoTier
NewCrawlerTwoTier ==
    /\ started = FALSE
    /\ visitedURLsMap = {}
    /\ firstRequestOnce = FALSE
    /\ collectorVisited = {}
    /\ frontier = EmptyBag
    /\ rpc = [h \in CrawlHandlers |-> "idle"]
    /\ rurl = [h \in CrawlHandlers |-> << >>]
    /\ rdepth = [h \in CrawlHandlers |-> 0]
    /\ rlinks = [h \in CrawlHandlers |-> << >>]
    /\ issued = EmptyBag
    /\ fetched = EmptyBag
    /\ panicCount = 0
    /\ panicURLs = << >>
    /\ panicked = EmptyBag
    /\ NewCoordinator

\* no crawl: the state of the crawler in the other specifications
CrawlerIdle ==
    /\ MaxDepth = 1
    /\ site = DepthSite
    /\ NewCrawlerTwoTier
    /\ NoPage

DLInit ==
    /\ ManagerInit
    /\ HandlersStart
    /\ activeWorkers = Cardinality(Workers)
    /\ ScalersIdle
    /\ CrawlerIdle

DLNext ==
    \/ \E h \in BagToSet(handlers) : HandlerDocument(h)
    \/ \E h \in BagToSet(handlers) : EnqueueTaskCheck(h)
    \/ \E h \in BagToSet(handlers) : EnqueueTaskSend(h)
    \/ \E h \in BagToSet(handlers) : EnqueueTaskMark(h)
    \/ \E p \in BagToSet(persist) : PersistentAttempt(p)
    \/ \E p \in BagToSet(persist) : PersistentMark(p)
    \/ \E w \in Workers : WorkerPollPriority(w)
    \/ \E w \in Workers : WorkerPollInterface(w)
    \/ \E w \in Workers : WorkerDownload(w)
    \/ \E t \in BagToSet(retrying) : RetryRequeue(t)
    \/ ShutdownClosePriority
    \/ ShutdownCloseQueue
    \/ ShutdownWait
    \/ PrintFinalStats

SpecDL == DLInit /\ [][DLNext]_vars

\* the download manager on ScaledInterfaces interfaces, a worker on each,
\* and two response handlers with a document each
WorkersInit ==
    /\ NewManagerOn(ScaledInterfaces, ScaledQueueSize)
    /\ StartWorkersOnAll(ScaledInterfaces)
    /\ retrying = EmptyBag
    /\ persist = EmptyBag
    /\ spc = "running"
    /\ sidx = 0
    /\ crashed = FALSE
    /\ accepted = [u \in DocURLs |-> 0]
    /\ returnedTrue = [u \in DocURLs |-> 0]
    /\ handlers = SetToBag({[pc |-> "docs", task |-> NoTask]})
                     (+) SetToBag({[pc |-> "docs", task |-> NoTask]})
    /\ activeWorkers = Cardinality(Workers)
    /\ ScalersIdle
    /\ CrawlerIdle

SpecWorkers == WorkersInit /\ [][DLNext]_vars

\* a step of worker w
WorkerStep(w) ==
    \/ WorkerPollPriority(w)
    \/ WorkerPollInterface(w)
    \/ WorkerDownload(w)

\* a step of Manager.Shutdown
ShutdownStep ==
    \/ ShutdownClosePriority
    \/ ShutdownCloseQueue
    \/ ShutdownWait

\* the download manager with every worker scheduled fairly, every download
\* attempt ending, and main going on with Shutdown when it can
SpecDLFair ==
    /\ SpecDL
    /\ \A w \in WorkerIDs(NumInterfaces) : WF_vars(WorkerStep(w))
    /\ WF_vars(ShutdownStep)

\* a step of a response handler in its document loop
HandlerStep ==
    \E h \in BagToSet(handlers) :
        \/ HandlerDocument(h)
        \/ EnqueueTaskCheck(h)
        \/ EnqueueTaskSend(h)
        \/ EnqueueTaskMark(h)


\* the manager some time into the crawl with no worker consuming: earlier
\* pages have left each queue empty or filled to capacity with tasks for d1,
\* which is then pending,
\* and the response handlers of the next pages are about to run
StalledInit ==
    /\ \E n \in {0, MaxQueueSize}, m \in {0, QueueSize} :
         /\ priorityQueue = Filled(n, "d1")
         /\ downloadQueues = [i \in InterfaceIDs(NumInterfaces) |-> Filled(m, "d1")]
         /\ pendingDownloads = IF n + m > 0 THEN {"d1"} ELSE {}
         /\ accepted = [u \in DocURLs |->
                          IF u = "d1" THEN n + NumInterfaces * m ELSE 0]
    /\ queueClosed = [i \in InterfaceIDs(NumInterfaces) |-> FALSE]
    /\ queueCapacity = [priority |-> MaxQueueSize, interface |-> QueueSize]
    /\ WorkerCount = [i \in InterfaceIDs(NumInterfaces) |-> GigabitWorkerCount]
    /\ priorityClosed = FALSE
    /\ currentInterfaceIndex = 0
    /\ downloadedFiles = {}
    /\ failedDownloads = [u \in DocURLs |-> 0]
    /\ stats = [downloadAttempts |-> 0, downloadSuccess |-> 0, downloadFailed |-> 0]
    /\ StartWorkers
    /\ retrying = EmptyBag
    /\ persist = EmptyBag
    /\ handlers = [h \in {[pc |-> "docs", task |-> NoTask]} |-> NumHandlers]
    /\ spc = "running"
    /\ sidx = 0
    /\ crashed = FALSE
    /\ returnedTrue = [u \in DocURLs |-> 0]
    /\ activeWorkers = Cardinality(Workers)
    /\ ScalersIdle
    /\ CrawlerIdle

\* the handlers and the PersistentEnqueue calls they start; no worker takes a
\* step
StalledNext ==
    \/ \E h \in BagToSet(handlers) : HandlerDocument(h)
    \/ \E h \in BagToSet(handlers) : EnqueueTaskCheck(h)
    \/ \E h \in BagToSet(handlers) : EnqueueTaskSend(h)
    \/ \E h \in BagToSet(handlers) : EnqueueTaskMark(h)
    \/ \E p \in BagToSet(persist) : PersistentAttempt(p)
    \/ \E p \in BagToSet(persist) : PersistentMark(p)

\* the response handlers are scheduled: a handler that can take a step is not
\* kept from it for ever
SpecStalled == StalledInit /\ [][StalledNext]_vars /\ WF_vars(HandlerStep)

\* the scalers of main on a manager whose workers StartWorkers has started
ScaleInit ==
    /\ ManagerInit
    /\ handlers = EmptyBag
    /\ activeWorkers = totalWorkers(Interfaces)
    /\ StartMonitoring
    /\ CrawlerIdle

ScaleNext ==
    \/ \E k \in Scalers : checkAndScaleMultiNIC(k)
    \/ \E k \in Scalers : AddWorkers(k)
    \/ \E k \in Scalers : ScalerReturn(k)
    \/ MainCloseShutdownChan
    \/ QueueMoves

SpecScale == ScaleInit /\ [][ScaleNext]_vars

\* the scalers on a manager with TickInterfaces interfaces: the workers
\* running are those of the model, or those StartWorkers starts
TickInit ==
    /\ NewManagerOn(TickInterfaces, TickQueueSize)
    /\ StartWorkersOnAll(TickInterfaces)
    /\ retrying = EmptyBag
    /\ persist = EmptyBag
    /\ spc = "running"
    /\ sidx = 0
    /\ crashed = FALSE
    /\ accepted = [u \in DocURLs |-> 0]
    /\ returnedTrue = [u \in DocURLs |-> 0]
    /\ handlers = EmptyBag
    /\ \/ activeWorkers = Cardinality(Workers)
       \/ activeWorkers = totalWorkers(Interfaces)
    /\ StartMonitoring
    /\ CrawlerIdle

SpecTick == TickInit /\ [][ScaleNext]_vars

\* a step of scaler k: a tick of its ticker, or the AddWorkers call of a tick
ScalerStep(k) ==
    \/ checkAndScaleMultiNIC(k)
    \/ AddWorkers(k)

\* the scalers on a manager with ScaledInterfaces interfaces
LoadInit ==
    /\ NewManagerOn(ScaledInterfaces, ScaledQueueSize)
    /\ StartWorkersOnAll(ScaledInterfaces)
    /\ retrying = EmptyBag
    /\ persist = EmptyBag
    /\ spc = "running"
    /\ sidx = 0
    /\ crashed = FALSE
    /\ accepted = [u \in DocURLs |-> 0]
    /\ returnedTrue = [u \in DocURLs |-> 0]
    /\ handlers = EmptyBag
    /\ \/ activeWorkers = Cardinality(Workers)
       \/ activeWorkers = totalWorkers(Interfaces)
    /\ StartMonitoring
    /\ CrawlerIdle

\* the scalers with the ticker of every scaler firing again and again, and
\* every scaler goroutine scheduled
SpecLoad ==
    /\ LoadInit
    /\ [][ScaleNext]_vars
    /\ \A k \in Scalers : WF_vars(ScalerStep(k))

\* main between NewManager and StartWorkers, on any number of interfaces of
\* any speed classes
StartInit ==
    /\ \E n \in 1 .. MaxInterfaces :
         \E networkInterfaces \in [InterfaceIDs(n) -> InterfaceWorkerCounts] :
            NewManagerWith(networkInterfaces, MaxQueueSize)
    /\ wpc = << >>
    /\ wtask = << >>
    /\ activeWorkers = 0
    /\ retrying = EmptyBag
    /\ persist = EmptyBag
    /\ spc = "running"
    /\ sidx = 0
    /\ crashed = FALSE
    /\ accepted = [u \in DocURLs |-> 0]
    /\ returnedTrue = [u \in DocURLs |-> 0]
    /\ handlers = EmptyBag
    /\ ScalersIdle
    /\ CrawlerIdle

\* StartWorkers: on every interface min(WorkerCount, Initial/len + 100)
\* workers are started, each counted in activeWorkers; the workers of the
\* model stand for them
StartWorkersCall ==
    /\ Workers = {}
    /\ wpc' = [w \in WorkerIDs(lenInterfaces) |-> "pollPriority"]
    /\ wtask' = [w \in WorkerIDs(lenInterfaces) |-> NoTask]
    /\ activeWorkers' = activeWorkers + totalWorkers(Interfaces)
    /\ UNCHANGED <<downloadQueues, priorityQueue, queueClosed, queueCapacity,
                   WorkerCount, priorityClosed, currentInterfaceIndex,
                   downloadedFiles, pendingDownloads, failedDownloads, stats,
                   retrying, persist, handlers, spc, sidx, crashed, accepted,
                   returnedTrue>>
    /\ UNCHANGED <<scaleVars, crawlVars>>

StartNext == StartWorkersCall

SpecStart == StartInit /\ [][StartNext]_vars

\* the coordinator of a crawler whose handlers route their pages
DecideInit ==
    /\ ManagerInit
    /\ HandlersStart
    /\ activeWorkers = Cardinality(Workers)
    /\ ScalersIdle
    /\ CrawlerIdle

DecideNext ==
    \/ DecideCall
    \/ DecideReturn

SpecDecide == DecideInit /\ [][DecideNext]_vars

\* the pages the routed handlers are given
RoutedPages == {<< >>, <<AnchorItem(href, doubleQuote, hrefPath)>>}

\* the response handlers of a crawl from Decide on: the coordinator and the
\* tokenizers of every page
RouteInit ==
    /\ ManagerInit
    /\ HandlersStart
    /\ activeWorkers = Cardinality(Workers)
    /\ ScalersIdle
    /\ MaxDepth = 1
    /\ site = DepthSite
    /\ NewCrawlerTwoTier
    /\ tokPage \in RoutedPages
    /\ tokBase = BaseURL(<< >>)
    /\ NoURLText

\* OnResponse: decision := c.coordinator.Decide(r.Request.URL, len(r.Body))
OnResponseDecide(h) ==
    /\ rpc[h] = "idle"
    /\ decideCalls < MaxDecideCalls
    /\ \E pageURL \in PageURLs, bodySize \in BodySizes :
         LET decision == Decide(pageURL, bodySize) IN
         /\ CountDecision(decision)
         /\ rpc' = [rpc EXCEPT ![h] = decision]
    /\ decideCalls' = decideCalls + 1
    /\ UNCHANGED <<deciding, returned, tokVars>>
    /\ UNCHANGED <<MaxDepth, site, started, visitedURLsMap, firstRequestOnce,
                   collectorVisited, frontier, rurl, rdepth, rlinks,
                   issued, fetched, panicVars>>
    /\ UNCHANGED <<dlVars, scaleVars>>

\* OnResponse, fast branch: ProcessFastPath; the URLs of the result are then
\* processed as in SpecCrawl, moving no counter of the tokenizers
ProcessFastPath(h) ==
    /\ rpc[h] = FastPath
    /\ LET result == ExtractLinks(Body(tokPage), tokBase) IN
       /\ fastResult' = <<result>>
       /\ IF result.panicked
          THEN /\ UNCHANGED <<fastPagesProcessed, fastLinksExtracted>>
               /\ panicked' = panicked (+) SetToBag({[url |-> << >>, by |-> h]})
               /\ rpc' = [rpc EXCEPT ![h] = "recover"]
          ELSE /\ fastPagesProcessed' = fastPagesProcessed + 1
               /\ fastLinksExtracted' = fastLinksExtracted + Len(result.URLs)
               /\ rpc' = [rpc EXCEPT ![h] = "links"]
               /\ UNCHANGED panicked
    /\ UNCHANGED <<tokPage, tokBase, slowPagesProcessed, slowLinksExtracted,
                   slowDocsDetected, slowResult, tokCalls, utilVars>>
    /\ UNCHANGED <<fastPathCount, slowPathCount, deciding, decideCalls, returned>>
    /\ UNCHANGED <<MaxDepth, site, started, visitedURLsMap, firstRequestOnce,
                   collectorVisited, frontier, rurl, rdepth, rlinks,
                   issued, fetched, panicCount, panicURLs>>
    /\ UNCHANGED <<dlVars, scaleVars>>

\* OnResponse, slow branch: ProcessSlowPath. The DOM walk of goquery either
\* returns, and the counters are updated, or panics before they are reached
ProcessSlowPath(h) ==
    /\ rpc[h] = SlowPath
    /\ \E outcome \in {"parsed", "rejected", "panic"} :
         CASE outcome = "parsed" ->
                LET result == AnalyzeDocument(tokPage, tokBase, docExtensions) IN
                /\ slowResult' = <<result>>
                /\ slowPagesProcessed' = slowPagesProcessed + 1
                /\ slowLinksExtracted' = slowLinksExtracted + Len(result.URLs)
                /\ slowDocsDetected' = slowDocsDetected + Len(result.Documents)
                /\ rpc' = [rpc EXCEPT ![h] = "links"]
                /\ UNCHANGED panicked
           [] outcome = "rejected" ->
                /\ slowResult' = <<EmptySlowPathResult>>
                /\ slowPagesProcessed' = CountRejected(slowPagesProcessed)
                /\ rpc' = [rpc EXCEPT ![h] = "links"]
                /\ UNCHANGED <<slowLinksExtracted, slowDocsDetected, panicked>>
           [] outcome = "panic" ->
                /\ panicked' = panicked (+) SetToBag({[url |-> << >>, by |-> h]})
                /\ rpc' = [rpc EXCEPT ![h] = "recover"]
                /\ UNCHANGED <<slowResult, slowPagesProcessed, slowLinksExtracted,
                               slowDocsDetected>>
    /\ UNCHANGED <<tokPage, tokBase, fastPagesProcessed, fastLinksExtracted,
                   fastResult, tokCalls, utilVars>>
    /\ UNCHANGED <<fastPathCount, slowPathCount, deciding, decideCalls, returned>>
    /\ UNCHANGED <<MaxDepth, site, started, visitedURLsMap, firstRequestOnce,
                   collectorVisited, frontier, rurl, rdepth, rlinks,
                   issued, fetched, panicCount, panicURLs>>
    /\ UNCHANGED <<dlVars, scaleVars>>

RouteNext ==
    \/ \E h \in CrawlHandlers : OnResponseDecide(h)
    \/ \E h \in CrawlHandlers : ProcessFastPath(h)
    \/ \E h \in CrawlHandlers : ProcessSlowPath(h)
    \/ \E h \in CrawlHandlers : RecoverPanic(h)
    \/ \E h \in CrawlHandlers : OnResponseReturn(h)

SpecRoute == RouteInit /\ [][RouteNext]_vars

\* the tokenizers on one page: the page and its URL are drawn, and the fast
\* path and the slow path are called on it
TokInit ==
    /\ ManagerInit
    /\ HandlersStart
    /\ activeWorkers = Cardinality(Workers)
    /\ ScalersIdle
    /\ MaxDepth = 1
    /\ site = DepthSite
    /\ NewCrawlerTwoTier
    /\ tokPage \in Pages
    /\ tokBase \in BaseURLs
    /\ NoURLText

TokNext ==
    \/ ExtractLinksCall
    \/ AnalyzeDocumentCall

SpecTok == TokInit /\ [][TokNext]_vars

\* the normalizer on one URL text, and on its own result
NormalizeInit ==
    /\ ManagerInit
    /\ HandlersStart
    /\ activeWorkers = Cardinality(Workers)
    /\ ScalersIdle
    /\ MaxDepth = 1
    /\ site = DepthSite
    /\ NewCrawlerTwoTier
    /\ tokPage = << >>
    /\ tokBase = BaseURL(<< >>)
    /\ normRaw \in URLTexts
    /\ normOnce = << >>
    /\ normTwice = << >>
    /\ absRaw = << >>
    /\ absResult = << >>
    /\ sanName = << >>
    /\ sanResult = << >>

NormalizeNext ==
    \/ NormalizeText
    \/ NormalizeAgain

SpecNormalize == NormalizeInit /\ [][NormalizeNext]_vars

\* raw values around the tests of makeAbsolute: a beginning and what follows it
RawBeginnings ==
    {<< >>, httpPrefix, httpsPrefix, httpsPrefix \o <<"/">>,
     <<"h", "t", "t", "p", ":", "/">>, <<"/", "/">>, <<"/">>, <<"x">>}
RawEndings == {<< >>, <<"x">>, <<"h", "/", "x">>}
RawValues == {b \o e : b \in RawBeginnings, e \in RawEndings}

\* the fast-path resolver on one raw value and one base URL
AbsoluteInit ==
    /\ ManagerInit
    /\ HandlersStart
    /\ activeWorkers = Cardinality(Workers)
    /\ ScalersIdle
    /\ MaxDepth = 1
    /\ site = DepthSite
    /\ NewCrawlerTwoTier
    /\ tokPage = << >>
    /\ tokBase \in BaseURLs
    /\ normRaw = << >>
    /\ normOnce = << >>
    /\ normTwice = << >>
    /\ absRaw \in RawValues
    /\ absResult = << >>
    /\ sanName = << >>
    /\ sanResult = << >>

\* makeAbsolute(rawURL, base)
makeAbsoluteCall ==
    /\ absResult = << >>
    /\ absResult' = <<makeAbsolute(absRaw, tokBase)>>
    /\ UNCHANGED <<normRaw, normOnce, normTwice, absRaw, sanName, sanResult>>
    /\ UNCHANGED <<fastPagesProcessed, fastLinksExtracted, slowPagesProcessed,
                   slowLinksExtracted, slowDocsDetected, tokPage, tokBase,
                   fastResult, slowResult, tokCalls>>
    /\ UNCHANGED <<fastPathCount, slowPathCount, deciding, decideCalls, returned>>
    /\ UNCHANGED <<MaxDepth, site, started, visitedURLsMap, firstRequestOnce,
                   collectorVisited, frontier, rpc, rurl, rdepth, rlinks,
                   issued, fetched, panicVars>>
    /\ UNCHANGED <<dlVars, scaleVars>>

AbsoluteNext == makeAbsoluteCall

SpecAbsolute == AbsoluteInit /\ [][AbsoluteNext]_vars

\* the characters SanitizeFilename replaces; nul stands for the byte 0
nul == "\\0"
InvalidChars == {"\\", "/", ":", "*", "?", "\"", "<", ">", "|", nul}

\* strings.ReplaceAll(name, ch, "_") for every invalid character
ReplaceInvalid(name) ==
    [k \in 1 .. Len(name) |-> IF name[k] \in InvalidChars THEN "_" ELSE name[k]]

\* the last index in S, or 0
Last(S) == IF S = {} THEN 0 ELSE CHOOSE k \in S : \A j \in S : j <= k

\* filepath.Ext: the suffix from the last dot of the last path element
Ext(path) ==
    LET element == Last({k \in 1 .. Len(path) : path[k] = "/"})
        dot == Last({k \in (element + 1) .. Len(path) : path[k] = "."})
    IN  IF dot = 0 THEN << >> ELSE SubSeq(path, dot, Len(path))

\* SanitizeFilename: the name, or Panic for slice bounds out of range in
\* name[:200-len(ext)]
SanitizeFilename(name) ==
    LET replaced == ReplaceInvalid(name)
        ext == Ext(replaced)
    IN  IF Len(replaced) > MaxNameLen
        THEN IF MaxNameLen - Len(ext) < 0 THEN Panic
             ELSE SubSeq(replaced, 1, MaxNameLen - Len(ext)) \o ext
        ELSE replaced

\* names around the length limit: a stem, with or without an invalid
\* character, and an extension, if any
Run(ch, n) == [k \in 1 .. n |-> ch]
StemLengths == {0, 1, 2, MaxNameLen - 2, MaxNameLen - 1, MaxNameLen, MaxNameLen + 1}
ExtLengths == {0, 1, 2, MaxNameLen - 1, MaxNameLen, MaxNameLen + 1, MaxNameLen + 2}
Stems == {Run("a", n) : n \in StemLengths}
         \cup {<<":">> \o Run("a", n - 1) : n \in StemLengths \ {0}}
Extensions == {IF n = 0 THEN << >> ELSE <<".">> \o Run("p", n - 1) : n \in ExtLengths}
Filenames == {s \o e : s \in Stems, e \in Extensions}

\* SanitizeFilename on one name
SanitizeInit ==
    /\ ManagerInit
    /\ HandlersStart
    /\ activeWorkers = Cardinality(Workers)
    /\ ScalersIdle
    /\ MaxDepth = 1
    /\ site = DepthSite
    /\ NewCrawlerTwoTier
    /\ tokPage = << >>
    /\ tokBase = BaseURL(<< >>)
    /\ normRaw = << >>
    /\ normOnce = << >>
    /\ normTwice = << >>
    /\ absRaw = << >>
    /\ absResult = << >>
    /\ sanName \in Filenames
    /\ sanResult = << >>

SanitizeFilenameCall ==
    /\ sanResult = << >>
    /\ sanResult' = <<SanitizeFilename(sanName)>>
    /\ UNCHANGED <<normRaw, normOnce, normTwice, absRaw, absResult, sanName>>
    /\ UNCHANGED <<fastPagesProcessed, fastLinksExtracted, slowPagesProcessed,
                   slowLinksExtracted, slowDocsDetected, tokPage, tokBase,
                   fastResult, slowResult, tokCalls>>
    /\ UNCHANGED <<fastPathCount, slowPathCount, deciding, decideCalls, returned>>
    /\ UNCHANGED <<MaxDepth, site, started, visitedURLsMap, firstRequestOnce,
                   collectorVisited, frontier, rpc, rurl, rdepth, rlinks,
                   issued, fetched, panicVars>>
    /\ UNCHANGED <<dlVars, scaleVars>>

SanitizeNext == SanitizeFilenameCall

SpecSanitize == SanitizeInit /\ [][SanitizeNext]_vars

\* main from the start of the crawl to its last statement: the response
\* handler of a page, the download manager and the scalers together. The one
\* handler finds no URL pending and no queue full, so that no
\* PersistentEnqueue call is started.
MainInit ==
    /\ ManagerInit
    /\ handlers = SetToBag({[pc |-> "docs", task |-> NoTask]})
    /\ activeWorkers = Cardinality(Workers)
    /\ StartMonitoring
    /\ CrawlerIdle

MainNext ==
    \/ \E h \in BagToSet(handlers) : HandlerDocument(h)
    \/ \E h \in BagToSet(handlers) : EnqueueTaskCheck(h)
    \/ \E h \in BagToSet(handlers) : EnqueueTaskSend(h)
    \/ \E h \in BagToSet(handlers) : EnqueueTaskMark(h)
    \/ \E w \in Workers : WorkerPollPriority(w)
    \/ \E w \in Workers : WorkerPollInterface(w)
    \/ \E w \in Workers : WorkerDownload(w)
    \/ \E t \in BagToSet(retrying) : RetryRequeue(t)
    \/ \E k \in Scalers : checkAndScaleMultiNIC(k)
    \/ \E k \in Scalers : AddWorkers(k)
    \/ \E k \in Scalers : ScalerReturn(k)
    \/ MainCloseShutdownChan
    \/ ShutdownClosePriority
    \/ ShutdownCloseQueue
    \/ ShutdownWait
    \/ PrintFinalStats

SpecMain == MainInit /\ [][MainNext]_vars

\* a crawl of one of the sites under one of the depth limits
CrawlInit ==
    /\ ManagerInit
    /\ HandlersStart
    /\ activeWorkers = Cardinality(Workers)
    /\ ScalersIdle
    /\ MaxDepth \in 1 .. MaxDepthBound
    /\ site \in Sites
    /\ NewCrawlerTwoTier
    /\ NoPage

CrawlNext ==
    \/ Start
    \/ \E h \in CrawlHandlers : OnResponse(h)
    \/ \E h \in CrawlHandlers : processDiscoveredURL(h)
    \/ \E h \in CrawlHandlers : saveVisitedURL(h)
    \/ \E h \in CrawlHandlers : collectorRequest(h)
    \/ \E h \in CrawlHandlers : OnResponseReturn(h)

SpecCrawl == CrawlInit /\ [][CrawlNext]_vars

\* a crawl of the site that links its seed again
LatchInit ==
    /\ ManagerInit
    /\ HandlersStart
    /\ activeWorkers = Cardinality(Workers)
    /\ ScalersIdle
    /\ MaxDepth \in 1 .. MaxDepthBound
    /\ site = LatchSite
    /\ NewCrawlerTwoTier
    /\ NoPage

SpecLatch == LatchInit /\ [][CrawlNext]_vars

\* the crawl with pages on whose body the tokenizer panics
PanicNext ==
    \/ Start
    \/ \E h \in CrawlHandlers : OnResponse(h)
    \/ \E h \in CrawlHandlers : OnResponsePanics(h)
    \/ \E h \in CrawlHandlers : RecoverPanic(h)
    \/ \E h \in CrawlHandlers : processDiscoveredURL(h)
    \/ \E h \in CrawlHandlers : saveVisitedURL(h)
    \/ \E h \in CrawlHandlers : collectorRequest(h)
    \/ \E h \in CrawlHandlers : OnResponseReturn(h)

SpecPanic == CrawlInit /\ [][PanicNext]_vars

(***************************************************************************)
(* Properties of the download manager, checked under SpecDL.               *)
(***************************************************************************)
RECURSIVE SeqToSet(_)
SeqToSet(q) == IF q = << >> THEN {} ELSE {Head(q)} \cup SeqToSet(Tail(q))

\* tasks waiting in a queue, held by a downloading worker, or held by a
\* sleeping retry goroutine
QueuedTasks == SeqToSet(priorityQueue) \cup UNION {SeqToSet(downloadQueues[i]) : i \in Interfaces}
InFlightTasks == {wtask[w] : w \in {x \in Workers : wpc[x] = "download"}}
LiveTasks == QueuedTasks \cup InFlightTasks \cup BagToSet(retrying)
RECURSIVE SumAccepted(_)
SumAccepted(S) == IF S = {} THEN 0
                  ELSE LET u == CHOOSE x \in S : TRUE
                       IN accepted[u] + SumAccepted(S \ {u})
TotalAccepted == SumAccepted(DocURLs)

\* C2: over the run a document URL is accepted into the queues by
\* EnqueueTask / PersistentEnqueue at most once (retry re-enqueues are not
\* counted).
C2_AcceptedAtMostOnce == \A u \in DocURLs : accepted[u] <= 1

\* C3: no URL is in pending and in downloaded at once, and a pending URL has
\* a task that is queued, in flight or waiting for its retry re-enqueue.
C3_PendingDisjointAndLive ==
    /\ pendingDownloads \cap downloadedFiles = {}
    /\ \A u \in pendingDownloads : \E t \in LiveTasks : t.URL = u

\* C5: a send that fires after Shutdown closed the queues is refused and the
\* process does not crash.
C5_NoCrashOnClosedQueue == crashed = FALSE

\* C8: a URL in the downloaded map is not in the failed map.
C8_DownloadedNotFailed == \A u \in downloadedFiles : failedDownloads[u] = 0

\* the step in which worker w records the outcome of its attempt
AttemptEnds(w) == wpc[w] = "download" /\ wpc'[w] # "download"
SuccessOutcome(w) ==
    /\ stats'.downloadSuccess = stats.downloadSuccess + 1
    /\ stats'.downloadFailed = stats.downloadFailed
    /\ wtask[w].URL \in downloadedFiles'
    /\ wtask[w].URL \notin pendingDownloads'
    /\ UNCHANGED <<failedDownloads, retrying>>
RetryOutcome(w) ==
    /\ stats'.downloadFailed = stats.downloadFailed + 1
    /\ stats'.downloadSuccess = stats.downloadSuccess
    /\ wtask[w].Retry < MaxRetries
    /\ \E t \in BagToSet(retrying') :
         /\ retrying' = retrying (+) SetToBag({t})
         /\ t.URL = wtask[w].URL
         /\ t.Retry = wtask[w].Retry + 1
         /\ t.Priority
    /\ UNCHANGED <<failedDownloads, downloadedFiles, pendingDownloads>>
GiveUpOutcome(w) ==
    /\ stats'.downloadFailed = stats.downloadFailed + 1
    /\ stats'.downloadSuccess = stats.downloadSuccess
    /\ failedDownloads' = [failedDownloads EXCEPT ![wtask[w].URL] = @ + 1]
    /\ wtask[w].URL \notin pendingDownloads'
    /\ UNCHANGED <<downloadedFiles, retrying>>
OneOutcome(w) ==
    \/ SuccessOutcome(w) /\ ~RetryOutcome(w) /\ ~GiveUpOutcome(w)
    \/ ~SuccessOutcome(w) /\ RetryOutcome(w) /\ ~GiveUpOutcome(w)
    \/ ~SuccessOutcome(w) /\ ~RetryOutcome(w) /\ GiveUpOutcome(w)
\* the worker gives url up with the retries of its task exhausted
ExhaustedGiveUp(url) ==
    \E w \in Workers : /\ AttemptEnds(w)
                       /\ wtask[w].URL = url
                       /\ wtask[w].Retry = MaxRetries
\* a retry goroutine gives url up because the priority queue refused its task
RefusedRequeue(url) ==
    \E t \in BagToSet(retrying) :
        /\ t.URL = url
        /\ retrying' = retrying (-) SetToBag({t})
        /\ ~priorityClosed
        /\ Len(priorityQueue) = MaxQueueSize
        /\ UNCHANGED priorityQueue
\* a task that enters the priority queue from a retry goroutine is the
\* retried task, with its priority flag set
RequeuedWithPriority ==
    \A t \in BagToSet(retrying) :
        (retrying' = retrying (-) SetToBag({t}) /\ priorityQueue' # priorityQueue)
            => priorityQueue' = Append(priorityQueue, t) /\ t.Priority

\* C9 as claimed: every attempt ends in exactly one of success, retry and
\* give-up, and a URL is given up only when the retries of its task are
\* exhausted (retry = MaxRetries).
C9_GiveUpOnlyWhenExhausted ==
    [][ /\ \A w \in Workers : AttemptEnds(w) => OneOutcome(w)
        /\ RequeuedWithPriority
        /\ \A u \in DocURLs :
             failedDownloads'[u] > failedDownloads[u] => ExhaustedGiveUp(u) ]_vars

\* C9 as amended: every attempt ends in exactly one of success, retry (the
\* task, with priority=true and retry incremented, is handed to a detached
\* task that re-enqueues it into the priority queue with a non-blocking send)
\* and give-up; a URL is given up only when the retries of its task are
\* exhausted or when that re-enqueue finds the priority queue full.
C9_AttemptOutcomes ==
    [][ /\ \A w \in Workers : AttemptEnds(w) => OneOutcome(w)
        /\ RequeuedWithPriority
        /\ \A u \in DocURLs :
             failedDownloads'[u] > failedDownloads[u]
                => ExhaustedGiveUp(u) \/ RefusedRequeue(u) ]_vars

\* a URL was given up although fewer than MaxRetries+1 attempts have failed
C9_Witness ==
    /\ \E u \in DocURLs : failedDownloads[u] > 0
    /\ stats.downloadFailed <= MaxRetries
    /\ stats.downloadSuccess > 0

\* C10: a task is attempted at most MaxRetries+1 times and its retry field
\* never exceeds MaxRetries; when the only accepted task has failed
\* MaxRetries times and then succeeded, the attempts counter stands at
\* MaxRetries+1, with one success, an empty failed map and the URL downloaded.
C10_RetryBound ==
    /\ \A t \in LiveTasks : t.Retry <= MaxRetries /\ t.Tries <= MaxRetries + 1
    /\ (TotalAccepted = 1 /\ stats.downloadFailed = MaxRetries /\ stats.downloadSuccess = 1)
          => /\ stats.downloadAttempts = MaxRetries + 1
             /\ \A u \in DocURLs : failedDownloads[u] = 0
             /\ \A u \in DocURLs : accepted[u] = 1 => u \in downloadedFiles

C10_Witness ==
    /\ TotalAccepted = 1
    /\ stats.downloadFailed = MaxRetries
    /\ stats.downloadSuccess = 1
    /\ \E u \in DocURLs : u \in downloadedFiles

(***************************************************************************)
(* The crawl (SpecCrawl) and the scalers (SpecScale)                       *)
(***************************************************************************)
NormalizedURLs == {NormalizeParsedURL(Parse(u)) : u \in RawURLs}

\* GETs processDiscoveredURL issued for URLs whose normalized form is n
RequestsFor(n) ==
    BagCardinality([r \in {x \in BagToSet(issued) :
                              /\ x.by = "Request"
                              /\ NormalizeParsedURL(Parse(x.url)) = n} |-> issued[r]])

\* fetches submitted, by Start or by processDiscoveredURL, for the seed
SeedSubmissions ==
    BagCardinality([r \in {x \in BagToSet(issued) :
                              NormalizeParsedURL(Parse(x.url))
                                 = NormalizeParsedURL(Parse(startURL))} |-> issued[r]])

\* C1: whatever the interleaving of the response handlers, processDiscoveredURL
\* issues at most one GET for each normalized URL.
C1_OneRequestPerNormalizedURL == \A n \in NormalizedURLs : RequestsFor(n) <= 1

\* C4: with several scalers ticking concurrently, activeWorkers never exceeds
\* MaxDownloadWorkers.
C4_ActiveWorkersBounded == activeWorkers <= MaxDownloadWorkers

\* C6: the seed is submitted for fetching exactly once in a run: a link whose
\* normalized form is the seed's does not have it submitted again.
C6_SeedSubmittedOnce == started => SeedSubmissions = 1

CrawlQuiescent ==
    /\ started
    /\ frontier = EmptyBag
    /\ \A h \in CrawlHandlers : rpc[h] = "idle"

\* every request made for a link found at depth d carries depth d + 1 <= MaxDepth
RequestDepths ==
    \A r \in BagToSet(issued) :
        r.by = "Request" => r.ctx = {r.from + 1} /\ r.from + 1 <= MaxDepth

\* no request, waiting or being handled, is deeper than MaxDepth
NoRequestBeyondMaxDepth ==
    /\ \A r \in BagToSet(frontier) : CtxDepth(r.ctx) <= MaxDepth
    /\ \A h \in CrawlHandlers : rdepth[h] <= MaxDepth

\* with MaxDepth = 1 on seed -> {a, b} -> deep: deep is never fetched, and at
\* the end of the crawl the seed, a and b have been fetched, once each
DepthScenario ==
    (site = DepthSite /\ MaxDepth = 1) =>
        /\ ~BagIn(deep, fetched)
        /\ CrawlQuiescent =>
             fetched = SetToBag({startURL, pageA, pageB})

\* C7: a fetch scheduled for a link found on a page of depth d carries depth
\* d + 1 and is scheduled only if d + 1 <= MaxDepth, so that no request deeper
\* than MaxDepth exists; with MaxDepth = 1 and seed -> {a, b} -> deep exactly
\* the seed, a and b are fetched.
C7_DepthBound == RequestDepths /\ NoRequestBeyondMaxDepth /\ DepthScenario

\* the crawl of the depth scenario is over: the handlers of a and b, at
\* depth 1 = MaxDepth, have gone through their link to deep
C7_Witness ==
    /\ site = DepthSite
    /\ MaxDepth = 1
    /\ CrawlQuiescent
    /\ BagIn(pageA, fetched) /\ BagIn(pageB, fetched)
    /\ BagCardinality(issued) = 3

(***************************************************************************)
(* Counters, enqueues and shutdown of the download manager                 *)
(***************************************************************************)
\* workers that have counted an attempt and not yet recorded its outcome
InFlight == Cardinality({w \in Workers : wpc[w] = "download"})

C12_AtMostOneTrue == \A u \in DocURLs : returnedTrue[u] <= 1

\* the PersistentEnqueue call p takes a step
PersistentSteps(p) == CopiesIn(p, persist') < CopiesIn(p, persist)

\* the maps of the manager are left alone
MapsUnchanged == UNCHANGED <<downloadedFiles, pendingDownloads, failedDownloads>>

\* the attempt of p places the task in the first queue with room, the priority
\* queue before the interface queues in index order, and in no other queue
PersistentSendsOnce(p) ==
    /\ \/ /\ PriorityHasRoom
          /\ priorityQueue' = Append(priorityQueue, p.task)
          /\ UNCHANGED downloadQueues
       \/ /\ ~PriorityHasRoom
          /\ UNCHANGED priorityQueue
          /\ \E i \in Interfaces :
                /\ QueueHasRoom(i)
                /\ \A j \in Interfaces : j < i => ~QueueHasRoom(j)
                /\ downloadQueues' = [downloadQueues EXCEPT ![i] = Append(@, p.task)]
    /\ persist' = (persist (-) SetToBag({p})) (+) SetToBag({[p EXCEPT !.sent = TRUE]})

\* the attempt of p is refused by every queue: p goes on to its next attempt,
\* or drops the task after the last one; the queues are as before
PersistentRefused(p) ==
    /\ ~PriorityHasRoom
    /\ \A i \in Interfaces : ~QueueHasRoom(i)
    /\ UNCHANGED <<priorityQueue, downloadQueues>>
    /\ IF p.attempt + 1 < maxAttempts
       THEN persist' = (persist (-) SetToBag({p})) (+) SetToBag({[p EXCEPT !.attempt = @ + 1]})
       ELSE persist' = persist (-) SetToBag({p})

\* p, its send accepted, marks the URL pending and returns
PersistentReturns(p) ==
    /\ persist' = persist (-) SetToBag({p})
    /\ pendingDownloads' = pendingDownloads \cup {p.task.URL}
    /\ UNCHANGED <<priorityQueue, downloadQueues, downloadedFiles, failedDownloads>>

PersistentStepAsClaimed ==
    \A p \in BagToSet(persist) :
        PersistentSteps(p) =>
            IF p.sent THEN PersistentReturns(p)
            ELSE \/ PersistentSendsOnce(p) /\ MapsUnchanged
                 \/ PersistentRefused(p) /\ MapsUnchanged

\* no call is beyond its last attempt, and none has died in an attempt
PersistentWithinAttempts ==
    \A p \in BagToSet(persist) : p.attempt < maxAttempts /\ ~p.panicked

\* C13: PersistentEnqueue ends after at most maxAttempts accept attempts, each
\* one trying the priority queue and then the interface queues in index order
\* without blocking; it returns as soon as a send succeeds, the task in
\* exactly one queue and the URL marked pending, and when every attempt is
\* refused it drops the task, queues and maps unchanged.
C13_PersistentEnqueue ==
    /\ []PersistentWithinAttempts
    /\ [][PersistentStepAsClaimed]_vars

\* the same with the calls that die on a closed queue left out
C13_OpenQueuesOnly ==
    [][~crashed' => PersistentStepAsClaimed]_vars

\* every queue is filled to capacity
QueuesFull == ~PriorityHasRoom /\ \A i \in Interfaces : ~QueueHasRoom(i)

\* no response handler is blocked: each one in its document loop can step
NoHandlerBlocked ==
    \A h \in BagToSet(handlers) :
        ENABLED (\/ HandlerDocument(h)
                 \/ EnqueueTaskCheck(h)
                 \/ EnqueueTaskSend(h)
                 \/ EnqueueTaskMark(h))

\* a handler whose EnqueueTask finds every queue full returns at that step,
\* the task handed to a PersistentEnqueue call in the background and the
\* queues as they were
FullQueueEscalates ==
    \A h \in BagToSet(handlers) :
        (/\ h.pc = "send"
         /\ QueuesFull
         /\ CopiesIn(h, handlers') < CopiesIn(h, handlers))
        => /\ handlers' = handlers (-) SetToBag({h})
           /\ persist' = persist (+) SetToBag({[task |-> h.task, attempt |-> 0,
                                               sent |-> FALSE, panicked |-> FALSE]})
           /\ UNCHANGED <<priorityQueue, downloadQueues, pendingDownloads>>

\* C14: a response handler that finds documents runs to completion also when
\* every queue is full and no worker consumes: EnqueueTask returns false
\* without blocking, the escalation to PersistentEnqueue runs in the
\* background, and no handler is ever blocked on the downloader.
C14_HandlersNeverBlock ==
    /\ []NoHandlerBlocked
    /\ [][FullQueueEscalates]_vars
    /\ <>(handlers = EmptyBag)

\* every handler has returned with every queue full, the task for d2 that
\* EnqueueTask refused with a PersistentEnqueue call and in no queue
C14_Witness ==
    /\ handlers = EmptyBag
    /\ QueuesFull
    /\ \E p \in BagToSet(persist) : p.task.URL = "d2"
    /\ "d2" \notin pendingDownloads
    /\ \A t \in QueuedTasks : t.URL = "d1"

\* every queue of the manager is closed
QueuesClosed == priorityClosed /\ \A i \in Interfaces : queueClosed[i]

\* Manager.Shutdown has started closing the queues
ShutdownStarted == spc # "running"

\* the order of completion, up to the closing of the queues: the shutdown
\* signal is broadcast after the fetcher is quiescent, a scaler leaves its
\* loop after the broadcast, and Manager.Shutdown starts after every scaler
\* has left
OrderUpToShutdown ==
    /\ monitorShutdown => CrawlerQuiescent
    /\ \A k \in Scalers : scalerPC[k] = "returned" => monitorShutdown
    /\ ShutdownStarted => MonitorReturned

\* the final statistics are emitted after the queues are closed and the
\* workers have exited
StatsAfterWorkersExit ==
    spc = "stats" => QueuesClosed /\ \A w \in Workers : wpc[w] = "exited"

\* the final statistics are emitted after the queues are drained
StatsAfterDrain ==
    spc = "stats" => QueuedTasks = {}

\* a step in which a scaler calls AddWorkers is taken before Manager.Shutdown
\* has started closing the queues
NoAddWorkersAfterShutdown ==
    (\E k \in Scalers : scalerPC[k] = "add" /\ scalerPC'[k] # "add")
    => ~ShutdownStarted /\ ~priorityClosed

\* C15: completion is strictly ordered: fetcher quiescence, then the shutdown
\* broadcast, then the exit of all scalers, then the manager's queues closed
\* and drained, then the final statistics; so no scaler calls AddWorkers
\* after Manager.Shutdown has started closing queues.
C15_CompletionOrder ==
    /\ [](OrderUpToShutdown /\ StatsAfterWorkersExit /\ StatsAfterDrain)
    /\ [][NoAddWorkersAfterShutdown]_vars

\* the same without the draining of the queues
C15_OrderWithoutDrain ==
    /\ [](OrderUpToShutdown /\ StatsAfterWorkersExit)
    /\ [][NoAddWorkersAfterShutdown]_vars

\* every worker has exited
WorkersExited == \A w \in Workers : wpc[w] = "exited"

\* Manager.Shutdown has returned
ShutdownReturned == spc \in {"done", "stats"}

\* no task is left in a queue once the workers have exited: a task that was
\* in a queue when the queues were closed has been dequeued
DrainedBeforeExit == WorkersExited => QueuedTasks = {}

\* C16: after Shutdown is invoked, with downloads that terminate and workers
\* scheduled fairly, every worker eventually exits and Shutdown returns, and
\* every task in a queue when the queues were closed is dequeued and
\* attempted before the workers exit.
C16_ShutdownDrainsAndReturns ==
    /\ []DrainedBeforeExit
    /\ ShutdownStarted ~> (WorkersExited /\ ShutdownReturned)

\* the same for the runs in which no detached send meets a closed queue, and
\* without the draining
C16_ReturnsUnlessCrashed ==
    ShutdownStarted ~> (crashed \/ (WorkersExited /\ ShutdownReturned))

\* no worker exits in the step
NoWorkerExits == \A w \in Workers : wpc'[w] = "exited" => wpc[w] = "exited"

\* C17: before shutdown begins, while the queues are open, no worker exits
\* and the active_workers counter never decreases, whatever the enqueues,
\* downloads, failures and scaler ticks.
C17_WorkersMonotone ==
    [][~ShutdownStarted => (activeWorkers' >= activeWorkers /\ NoWorkerExits)]_vars

\* before shutdown, a scaler has added workers, a download has failed for
\* good and the worker has gone back to its idle polling
C17_Witness ==
    /\ ~ShutdownStarted
    /\ ~priorityClosed
    /\ activeWorkers > Cardinality(Workers)
    /\ stats.downloadFailed > MaxRetries
    /\ QueuedTasks = {}
    /\ \A w \in Workers : wpc[w] = "pollInterface"

(***************************************************************************)
(* The routing rules of the coordinator                                    *)
(***************************************************************************)
\* the Decide calls made, each with its arguments and its decision (every
\* call is in the bag from its decision to its return)
DecideCalls == BagToSet(deciding)

\* the conditions of the rules S1, S2, S3 and F1, F2, F3 of the routing table
S1(call) == call.bodySize > slowPathSizeLimit
S2(call) == \E k \in documentKeywords : Contains(ToLower(PageString(call.pageURL)), k)
S3(call) == call.pageURL.RawQuery # << >>
F1(call) == call.bodySize < fastPathSizeLimit
F2(call) == \E k \in navigationKeywords : Contains(ToLower(call.pageURL.Path), k)
\* the segments of a path: the non-empty pieces of text between its "/"
SegmentCount(path) ==
    Cardinality({i \in 1 .. Len(path) - 1 : path[i] = "/" /\ path[i + 1] # "/"})
F3(call) == SegmentCount(call.pageURL.Path) <= 3

\* C18: the rules are evaluated top to bottom and the first match wins: a
\* page with S1, S2 or S3 is routed slow also when F1, F2 or F3 holds of it;
\* otherwise a page with F1, F2 or F3 is routed fast; otherwise slow.
C18_FirstMatchWins ==
    \A call \in DecideCalls :
        call.decision =
            IF S1(call) \/ S2(call) \/ S3(call) THEN SlowPath
            ELSE IF F1(call) \/ F2(call) \/ F3(call) THEN FastPath
            ELSE SlowPath

\* the first half alone: a slow rule wins over every fast rule
C18_SlowRulesWin ==
    \A call \in DecideCalls :
        S1(call) \/ S2(call) \/ S3(call) => call.decision = SlowPath

\* the whole with F2 read on the text of the URL, host and fragment
\* included, and F3 as at most three pieces of the path split at "/"
C18_AsCoded ==
    \A call \in DecideCalls :
        call.decision =
            IF S1(call) \/ S2(call) \/ S3(call) THEN SlowPath
            ELSE IF \/ F1(call)
                    \/ \E k \in navigationKeywords :
                          Contains(ToLower(PageString(call.pageURL)), k)
                    \/ LenSplit(call.pageURL.Path) <= 3
                 THEN FastPath
            ELSE SlowPath

ExactLimitShallowFast ==
    \A call \in DecideCalls :
        (/\ call.bodySize = slowPathSizeLimit
         /\ ~S2(call)
         /\ ~S3(call)
         /\ LenSplit(call.pageURL.Path) <= 3)
        => call.decision = FastPath

RECURSIVE SumCopies(_)
SumCopies(S) == IF S = {} THEN 0
                ELSE LET call == CHOOSE x \in S : TRUE
                     IN CopiesIn(call, deciding) + SumCopies(S \ {call})
InProgress(decision) == SumCopies({call \in DecideCalls : call.decision = decision})

\* C20: in every state fast_count + slow_count is the number of completed
\* Decide calls, each call having incremented the counter of the decision
\* it returns, and only that one, by one.
C20_CountsEqualCompleted ==
    /\ fastPathCount = returned[FastPath]
    /\ slowPathCount = returned[SlowPath]
    /\ fastPathCount + slowPathCount = returned[FastPath] + returned[SlowPath]

\* C20 as amended: in every state each routing counter is the number of
\* Decide calls with that decision that have returned or are between their
\* increment and their return, so that fast_count + slow_count is the number
\* of completed calls whenever no call is in progress; a step of a call
\* raises exactly one counter, by one.
C20_CountsMatchDecisions ==
    /\ [](/\ fastPathCount = returned[FastPath] + InProgress(FastPath)
          /\ slowPathCount = returned[SlowPath] + InProgress(SlowPath)
          /\ fastPathCount + slowPathCount = decideCalls
          /\ deciding = EmptyBag =>
                fastPathCount + slowPathCount
                    = returned[FastPath] + returned[SlowPath])
    /\ [][fastPathCount' + slowPathCount' \in
            {fastPathCount + slowPathCount, fastPathCount + slowPathCount + 1}]_vars

\* calls of both decisions have returned and two more, one of each decision,
\* are in progress at the same time
C20_Witness ==
    /\ returned[FastPath] + returned[SlowPath] > 0
    /\ InProgress(FastPath) = 1
    /\ InProgress(SlowPath) = 1

(***************************************************************************)
(* The tokenizers (SpecTok)                                                *)
(***************************************************************************)
\* the indices, counted from 0, at which five bytes spell href= in any case
\* mix of the letters
HrefOccurrences(htmlBytes) ==
    {p \in 0 .. (Len(htmlBytes) - 5) :
        LowerBytes(SubSeq(htmlBytes, p + 1, p + 5)) = href}

\* the value of the href= at index p: the bytes after the "=" and an opening
\* quote, up to the closing quote or, unquoted, up to a space or ">", or up
\* to the end of the body
ValueAfter(htmlBytes, p) ==
    LET quoted == p + 5 < Len(htmlBytes)
                  /\ htmlBytes[p + 6] \in {doubleQuote, singleQuote}
        rest == SubSeq(htmlBytes, (IF quoted THEN p + 7 ELSE p + 6), Len(htmlBytes))
        stops == {k \in 1 .. Len(rest) :
                    IF quoted THEN rest[k] = htmlBytes[p + 6]
                    ELSE rest[k] \in {" ", ">"}}
    IN  IF stops = {} THEN rest
        ELSE SubSeq(rest, 1, (CHOOSE k \in stops : \A j \in stops : k <= j) - 1)

\* C21: ExtractLinks returns its URLs in the order of the href= occurrences
\* they come from and at most one URL for an occurrence: every URL is the
\* resolved value of an occurrence, the occurrences of the URLs ascend, and
\* none of them lies inside the value of an earlier one.
C21_SourceOrder ==
    fastResult # << >> =>
        LET r == fastResult[1]
            b == Body(tokPage)
        IN  /\ Len(r.at) = Len(r.URLs)
            /\ Len(r.URLs) <= Cardinality(HrefOccurrences(b))
            /\ \A k \in 1 .. Len(r.URLs) :
                  /\ r.at[k] \in HrefOccurrences(b)
                  /\ r.URLs[k] = makeAbsolute(ValueAfter(b, r.at[k]), tokBase)
            /\ \A j, k \in 1 .. Len(r.URLs) :
                  j < k => r.at[k] >= r.at[j] + 5 + Len(ValueAfter(b, r.at[j]))

\* two anchors, the value of the first spelling an href= of its own: three
\* occurrences, two URLs
C21_Witness ==
    /\ tokPage = <<AnchorItem(href, <<doubleQuote>>, hrefNested),
                   AnchorItem(href, << >>, hrefPath)>>
    /\ fastResult # << >>
    /\ Len(fastResult[1].URLs) = 2
    /\ Cardinality(HrefOccurrences(Body(tokPage))) = 3

\* C22: ExtractLinks never fails with an index out of range: on bodies
\* shorter than six bytes, bodies cut inside href=, after the "=" or after the
\* opening quote, and bodies whose value is not terminated, it returns.
C22_NoIndexOutOfRange ==
    fastResult # << >> => ~fastResult[1].panicked

\* a body that ends inside a quoted value: the value runs to the end
C22_Witness ==
    /\ tokPage = <<TextItem(<<"<", "a", " ">> \o href \o <<doubleQuote>> \o hrefPath)>>
    /\ fastResult # << >>
    /\ fastResult[1].from = <<hrefPath>>
    /\ ~fastResult[1].panicked

\* an href that is a fragment reference, a javascript: or a mailto: URL
DroppedHref(value) ==
    /\ value # << >>
    /\ \/ value[1] = "#"
       \/ HasPrefix(value, javascriptPrefix)
       \/ HasPrefix(value, mailtoPrefix)

FastPathDrops ==
    fastResult # << >> =>
        \A k \in 1 .. Len(fastResult[1].from) : ~DroppedHref(fastResult[1].from[k])

SlowPathDrops ==
    slowResult # << >> =>
        \A k \in 1 .. Len(slowResult[1].from) : ~DroppedHref(slowResult[1].from[k])

\* C23: neither ExtractLinks nor AnalyzeDocument produces an output URL for
\* an href that is a fragment reference such as #x, a javascript: URL or a
\* mailto: URL.
C23_BothPathsDrop == FastPathDrops /\ SlowPathDrops

\* the part of C23 that holds: the fast path drops the three kinds, and the
\* slow path drops javascript: and mailto: URLs and the bare "#"
C23_AllButFragments ==
    /\ FastPathDrops
    /\ slowResult # << >> =>
          \A k \in 1 .. Len(slowResult[1].from) :
              LET value == slowResult[1].from[k] IN
              DroppedHref(value) => (value[1] = "#" /\ Len(value) > 1)

IsDocumentLink(urlStr) == IsDocumentURL(urlStr, docExtensions)

\* the URLs of the DocumentRecords of a SlowPathResult
RECURSIVE DocumentURLs(_)
DocumentURLs(documents) ==
    IF documents = << >> THEN << >>
    ELSE <<Head(documents).URL>> \o DocumentURLs(Tail(documents))

\* C27: the slow path emits a DocumentRecord for an anchor exactly when
\* IsDocumentURL holds for its resolved URL: the lowercased URL ends with a
\* listed extension or contains the extension followed by "?" or "&".
C27_SlowPathClassifiesAsUtils ==
    slowResult # << >> =>
        DocumentURLs(slowResult[1].Documents)
            = SelectSeq(slowResult[1].URLs, IsDocumentLink)

(***************************************************************************)
(* Panics of the response handler (SpecPanic)                              *)
(***************************************************************************)
\* the handlers between their panic and the end of the deferred function
Recovering == {h \in CrawlHandlers : rpc[h] = "recover"}

\* handler h leaves its deferred function
Recovers(h) == rpc[h] = "recover" /\ rpc'[h] # "recover"

\* the counter stands at the number of panicking responses recovered so far
PanicsCounted == panicCount + Cardinality(Recovering) = BagCardinality(panicked)

\* a recovery raises the counter by one and returns the handler to the
\* collector; nothing else moves the counter
RecoveryCountsOne ==
    /\ \A h \in CrawlHandlers :
          Recovers(h) => panicCount' = panicCount + 1 /\ rpc'[h] = "idle"
    /\ (\A h \in CrawlHandlers : ~Recovers(h)) => panicCount' = panicCount

\* a handler that is handling a response can take its next step
NoHandlerStuck ==
    \A h \in CrawlHandlers :
        rpc[h] # "idle" =>
            ENABLED (\/ RecoverPanic(h)
                     \/ processDiscoveredURL(h)
                     \/ saveVisitedURL(h)
                     \/ collectorRequest(h)
                     \/ OnResponseReturn(h))

\* a response that does not panic gets the links of its page to go through,
\* whatever the number of panics before it
HandledNormally ==
    \A h \in CrawlHandlers :
        (rpc[h] = "idle" /\ rpc'[h] = "links") =>
            /\ rlinks'[h] = site[rurl'[h]]
            /\ UNCHANGED <<panicCount, visitedURLsMap>>

\* C24: a panic raised while a response is being handled is recovered inside
\* the handler: the panic counter goes up by exactly one for each panicking
\* response, the process does not die of it, and the handlers go on with
\* the responses that follow, which get their links processed.
C24_PanicRecovered ==
    /\ [](PanicsCounted /\ ~crashed /\ NoHandlerStuck)
    /\ [][RecoveryCountsOne /\ HandledNormally]_vars

\* a handler that recovered from the panic of one page now schedules a link
\* of another page
C24_Witness ==
    \E h \in CrawlHandlers :
        /\ panicCount >= 1
        /\ \E p \in BagToSet(panicked) : p.by = h /\ p.url # rurl[h]
        /\ \A p \in BagToSet(panicked) : p.url # rurl[h]
        /\ rpc[h] = "request"

\* C25: whenever the two-tier OnResponse handler recovers a panic, the URL of
\* the panicking page is appended to panic_urls.txt.
C25_PanicURLLogged ==
    [][\A h \in CrawlHandlers :
          Recovers(h) => panicURLs' = Append(panicURLs, rurl[h])]_vars

WorkerExits(w) == wpc[w] # "exited" /\ wpc'[w] = "exited"

\* both sources of worker w are closed and empty
SourcesDrainedAndClosed(w) ==
    /\ priorityClosed
    /\ queueClosed[w[1]]
    /\ priorityQueue = << >>
    /\ downloadQueues[w[1]] = << >>

\* a worker leaves its loop only with both its sources closed and empty
ExitsOnlyWhenDrained ==
    \A w \in Workers : WorkerExits(w) => SourcesDrainedAndClosed(w)

\* C28: a worker exits only when the priority queue and its own interface
\* queue are both closed and empty; whatever the interleaving of workers,
\* retry re-enqueues and Shutdown, no task remains in the priority queue or
\* in an interface queue once all workers have exited.
C28_ExitOnlyWhenDrained ==
    /\ [](WorkersExited => QueuedTasks = {})
    /\ [][ExitsOnlyWhenDrained]_vars

\* the step in which worker w receives a task
WorkerTakes(w) == wpc[w] # "download" /\ wpc'[w] = "download"

\* the step takes the head of the priority queue / of the queue of interface i
PriorityTaken ==
    priorityQueue # << >> /\ priorityQueue' = Tail(priorityQueue)
InterfaceTaken(i) ==
    downloadQueues[i] # << >> /\ downloadQueues'[i] = Tail(downloadQueues[i])

\* a worker at the top of its loop that takes a step with a task in the
\* priority queue takes that task, and no other
PriorityFirst ==
    \A w \in Workers :
        (wpc[w] = "pollPriority" /\ wpc'[w] # "pollPriority" /\ priorityQueue # << >>)
        => /\ WorkerTakes(w)
           /\ PriorityTaken
           /\ wtask'[w].URL = Head(priorityQueue).URL
           /\ downloadQueues' = downloadQueues

\* a worker goes on to its interface queue from the priority poll only, and
\* only when that poll found the priority queue empty
InterfaceAfterPriority ==
    \A w \in Workers :
        (wpc[w] # "pollInterface" /\ wpc'[w] = "pollInterface")
        => /\ wpc[w] = "pollPriority"
           /\ priorityQueue = << >>
           /\ UNCHANGED <<priorityQueue, downloadQueues>>

\* an interface queue gives a task up only to a worker of its own interface
\* that is past its priority poll
OwnInterfaceOnly ==
    \A i \in Interfaces :
        InterfaceTaken(i)
        => \E w \in Workers :
              /\ w[1] = i
              /\ wpc[w] = "pollInterface"
              /\ WorkerTakes(w)
              /\ wtask'[w].URL = Head(downloadQueues[i]).URL
              /\ \A v \in Workers \ {w} : wpc'[v] = wpc[v]
              /\ \A j \in Interfaces \ {i} : downloadQueues'[j] = downloadQueues[j]
              /\ priorityQueue' = priorityQueue

\* C29: in each loop iteration a worker polls the priority queue first and
\* takes a task from it whenever one is available; it takes a task from its
\* own interface queue only after the priority poll of the same iteration
\* found the priority queue empty or closed, and it never takes from another
\* interface's queue.
C29_PriorityThenOwnQueue ==
    [][PriorityFirst /\ InterfaceAfterPriority /\ OwnInterfaceOnly]_vars

\* the worker of interface 1 downloads a task it took from its own queue
\* while the worker of interface 0 downloads a retry it took from the
\* priority queue
C29_Witness ==
    /\ wpc[<<1, 0>>] = "download"
    /\ ~wtask[<<1, 0>>].Priority
    /\ wtask[<<1, 0>>].InterfaceID = 1
    /\ wpc[<<0, 0>>] = "download"
    /\ wtask[<<0, 0>>].Priority

(***************************************************************************)
(* A tick of a scaler (SpecTick)                                           *)
(***************************************************************************)
\* the step the claim names: u > 0.80 gives four steps, u > 0.60 two, else one
ClaimedStep ==
    IF 10 * totalQueued > 8 * totalCapacity THEN 4 * ScaleUpAmount
    ELSE IF 10 * totalQueued > 6 * totalCapacity THEN 2 * ScaleUpAmount
    ELSE ScaleUpAmount

\* u > 0.40 and active_workers < MaxDownloadWorkers
ShouldAdd ==
    /\ 10 * totalQueued > 4 * totalCapacity
    /\ activeWorkers < MaxDownloadWorkers

\* the tick of scaler k decides to add workers
TickAdds(k) == scalerPC[k] = "tick" /\ scalerPC'[k] = "add"

\* scaler k returns from AddWorkers
AddWorkersDone(k) == scalerPC[k] = "add" /\ scalerPC'[k] # "add"

\* a tick adds workers only if it should, and then min(s, Max - active)
TickAddsAsClaimed ==
    \A k \in Scalers :
        TickAdds(k) =>
            /\ ShouldAdd
            /\ scalerAdd'[k] = Min(ClaimedStep, MaxDownloadWorkers - activeWorkers)

\* a tick that should add workers does, whatever else the scalers do
TickMustAdd ==
    \A k \in Scalers :
        (scalerPC[k] = "tick" /\ ~monitorShutdown /\ ShouldAdd)
        => /\ ENABLED (checkAndScaleMultiNIC(k) /\ TickAdds(k))
           /\ ~ENABLED (checkAndScaleMultiNIC(k) /\ ~TickAdds(k))

\* the workers started on the interfaces S in the step
RECURSIVE StartedInStep(_)
StartedInStep(S) ==
    IF S = {} THEN 0
    ELSE LET i == CHOOSE x \in S : TRUE
         IN (addedWorkers'[i] - addedWorkers[i]) + StartedInStep(S \ {i})

\* AddWorkers(n) starts n workers: every interface gets the quotient or one
\* more, an interface never more than one of a lower index, n in all, and
\* the counter of active workers goes up by n
SplitAsClaimed ==
    \A k \in Scalers :
        AddWorkersDone(k) =>
            LET n == scalerAdd[k]
                quotient == n \div lenInterfaces
            IN  /\ n > 0
                /\ \A i \in Interfaces :
                      addedWorkers'[i] - addedWorkers[i] \in {quotient, quotient + 1}
                /\ \A i, j \in Interfaces :
                      i < j => addedWorkers'[i] - addedWorkers[i]
                                >= addedWorkers'[j] - addedWorkers[j]
                /\ StartedInStep(Interfaces) = n
                /\ activeWorkers' = activeWorkers + n

\* C30: on each scaler tick, with u = total queued / total capacity over the
\* priority queue and all interface queues, workers are added if and only if
\* u > 0.40 and active_workers < MaxDownloadWorkers; the number added is
\* n = min(s, MaxDownloadWorkers - active_workers) with s = 4 ScaleStep if
\* u > 0.80, 2 ScaleStep if u > 0.60, else ScaleStep; and AddWorkers(n)
\* starts exactly n workers, split across interfaces by quotient and
\* remainder.
C30_TickAddsMinOfStepAndRoom ==
    /\ []TickMustAdd
    /\ [][TickAddsAsClaimed /\ SplitAsClaimed]_vars

\* three workers running, the queues more than eight tenths full: one tick
\* has added min(1200, 797) workers, 266 on two interfaces and 265 on the last
C30_Witness ==
    /\ activeWorkers = MaxDownloadWorkers
    /\ addedWorkers = (0 :> 266 @@ 1 :> 266 @@ 2 :> 265)

(***************************************************************************)
(* Scaling under load (SpecLoad)                                           *)
(***************************************************************************)
\* the utilization is above 0.60 and at most 0.80, and the scalers run
MiddleBand ==
    /\ 10 * totalQueued > 6 * totalCapacity
    /\ 10 * totalQueued <= 8 * totalCapacity
    /\ ~monitorShutdown

\* the worker counts a run starts with
InitialWorkerCounts ==
    {Cardinality(WorkerIDs(ScaledInterfaces))}
    \cup {ScaledInterfaces * Min(workerCount, (InitialDownloadWorkers \div ScaledInterfaces) + 100) :
             workerCount \in InterfaceWorkerCounts}

\* C31: if queue utilization stays above 0.60 (and at most 0.80) while
\* active_workers equals its initial value, then under fair scheduling of
\* scaler ticks active_workers eventually grows by at least 2 ScaleStep or
\* reaches MaxDownloadWorkers, whichever is smaller.
C31_GrowsUnderLoad ==
    \A initial \in InitialWorkerCounts :
        (activeWorkers = initial /\ MiddleBand)
        ~> \/ ~MiddleBand
           \/ activeWorkers >= Min(initial + 2 * ScaleUpAmount, MaxDownloadWorkers)

\* the queues are in the middle band and one tick has added 2 ScaleStep
\* workers to the two of the start
C31_Witness ==
    /\ MiddleBand
    /\ activeWorkers = Cardinality(Workers) + 2 * ScaleUpAmount
    /\ \A i \in Interfaces : addedWorkers[i] = ScaleUpAmount

(***************************************************************************)
(* Rule F3 of the coordinator (SpecDecide)                                 *)
(***************************************************************************)
\* no rule before F3 matches the call, F2 read on the path or on the whole
\* text of the URL
OnlyF3Left(call) ==
    /\ ~S1(call) /\ ~S2(call) /\ ~S3(call)
    /\ ~F1(call) /\ ~F2(call)
    /\ ~\E k \in navigationKeywords : Contains(ToLower(PageString(call.pageURL)), k)

\* C32: a page that matches none of S1-S3, F1 and F2 and whose URL path has
\* at most 3 segments is routed fast by rule F3 (e.g. path /a/b/c with a
\* 300 KB body and no query); only paths with more than 3 segments fall
\* through to the default slow route.
C32_ShallowPathsFast ==
    \A call \in DecideCalls :
        OnlyF3Left(call) => (call.decision = FastPath <=> F3(call))

(***************************************************************************)
(* The once-latch of OnRequest (SpecLatch)                                 *)
(***************************************************************************)
\* the URL of the request is the seed URL
ForSeed(r) == String(Parse(r.url)) = startURL

\* handler h starts on the response to request r in the step
Fetches(h, r) ==
    /\ rpc[h] = "idle"
    /\ rpc'[h] # "idle"
    /\ BagIn(r, frontier)
    /\ frontier' = frontier (-) SetToBag({r})

\* the latch has fired exactly when a request for the seed URL has gone out
LatchFiredOnSeed ==
    firstRequestOnce <=> \E u \in BagToSet(fetched) : String(Parse(u)) = startURL

\* the first request for the seed goes out at depth 0 and fires the latch;
\* no other request fires it, and every later request is handled at the
\* depth it was scheduled with
LatchOnce ==
    \A h \in CrawlHandlers : \A r \in BagToSet(frontier) :
        Fetches(h, r) =>
            IF ForSeed(r) /\ ~firstRequestOnce
            THEN firstRequestOnce' /\ rdepth'[h] = 0
            ELSE /\ firstRequestOnce' = firstRequestOnce
                 /\ rdepth'[h] = CtxDepth(r.ctx)

\* C33: the depth=0 context is installed by the once-latch exactly once per
\* run, on the first outbound request whose URL equals the seed URL; any
\* later request to the seed URL keeps the depth it was scheduled with and
\* is never reset to depth 0.
C33_LatchOnce ==
    /\ []LatchFiredOnSeed
    /\ [][LatchOnce /\ (firstRequestOnce => firstRequestOnce')]_vars

\* the seed has been fetched a second time, under the spelling with the
\* empty fragment, and is handled at depth 2
C33_Witness ==
    /\ firstRequestOnce
    /\ \E h \in CrawlHandlers :
          /\ rpc[h] # "idle"
          /\ rurl[h] = startEmptyFragment
          /\ rdepth[h] = 2

(***************************************************************************)
(* The counters of the tokenizers (SpecTok)                                *)
(***************************************************************************)
\* the step is a call of ExtractLinks that counts one page and the URLs of
\* its result
FastCallCounted ==
    /\ fastResult' # << >>
    /\ fastPagesProcessed' = fastPagesProcessed + 1
    /\ fastLinksExtracted' = fastLinksExtracted + Len(fastResult'[1].URLs)
    /\ UNCHANGED <<slowPagesProcessed, slowLinksExtracted, slowResult>>

\* the step is a call of AnalyzeDocument that counts one page and the URLs
\* of its result
SlowCallCounted ==
    /\ slowResult' # << >>
    /\ slowPagesProcessed' = slowPagesProcessed + 1
    /\ slowLinksExtracted' = slowLinksExtracted + Len(slowResult'[1].URLs)
    /\ UNCHANGED <<fastPagesProcessed, fastLinksExtracted, fastResult>>

\* an empty body gives no URL, no document and no metadata
EmptyBodyEmptyResult ==
    Body(tokPage) = << >> =>
        /\ fastResult # << >> => fastResult[1].URLs = << >>
        /\ slowResult # << >> => slowResult[1] = EmptySlowPathResult

C35_StartWithinTotals ==
    Workers # {} =>
        /\ totalWorkers(Interfaces) <= InitialDownloadWorkers
        /\ activeWorkers <= MaxDownloadWorkers

(***************************************************************************)
(* The failed map (SpecDL)                                                 *)
(***************************************************************************)
\* the step gives url up, and the failed map then holds for it the attempts
\* made on the task given up
GivenUpWithAttempts(url) ==
    \/ \E w \in Workers :
          /\ AttemptEnds(w)
          /\ wtask[w].URL = url
          /\ failedDownloads'[url] = wtask[w].Tries
    \/ \E t \in BagToSet(retrying) :
          /\ t.URL = url
          /\ retrying' = retrying (-) SetToBag({t})
          /\ failedDownloads'[url] = t.Tries

\* C36: when a task is given up, the failed map records for its URL the
\* number of download attempts made on it (MaxRetries+1 when the retries
\* were exhausted).
C36_FailedRecordsAttempts ==
    [][ \A u \in DocURLs :
          failedDownloads'[u] # failedDownloads[u] => GivenUpWithAttempts(u) ]_vars

(***************************************************************************)
(* The fast-path resolver (SpecAbsolute)                                   *)
(***************************************************************************)
\* the base URL with the "/" the last rule inserts
BaseWithSlash(base) ==
    LET baseStr == URLString(base) IN
    IF baseStr # << >> /\ baseStr[Len(baseStr)] = "/" THEN baseStr
    ELSE baseStr \o <<"/">>

\* the rules of the resolver, in order
ResolvedByRules(value, base) ==
    IF HasPrefix(value, httpPrefix) \/ HasPrefix(value, httpsPrefix \o <<"/">>)
    THEN value
    ELSE IF HasPrefix(value, <<"/", "/">>)
    THEN base.Scheme \o <<":">> \o value
    ELSE IF HasPrefix(value, <<"/">>)
    THEN base.Scheme \o <<":", "/", "/">> \o base.Host \o value
    ELSE BaseWithSlash(base) \o value

\* C37: the fast-path resolver applies its rules in order for every raw
\* value and base: a value is returned unchanged exactly when it starts with
\* http:// or https://; a value starting with // becomes base.scheme + ":" +
\* value; a value starting with / becomes base.scheme + "://" + base.host +
\* value; any other value is appended to the base URL, with a "/" inserted
\* when the base does not end with one.
C37_ResolvedByRules ==
    absResult # << >> => absResult[1] = ResolvedByRules(absRaw, tokBase)

(***************************************************************************)
(* SanitizeFilename (SpecSanitize)                                         *)
(***************************************************************************)
\* C38: for every input name, SanitizeFilename returns normally a name of
\* at most 200 characters that keeps the original extension and contains
\* none of the forbidden characters, also for a name longer than 200
\* characters whose extension (the text from the last ".") is itself longer
\* than 200 characters.
C38_SanitizedName ==
    sanResult # << >> =>
        /\ sanResult[1] # Panic
        /\ Len(sanResult[1]) <= MaxNameLen
        /\ Ext(sanResult[1]) = Ext(sanName)
        /\ \A k \in 1 .. Len(sanResult[1]) : sanResult[1][k] \notin InvalidChars

(***************************************************************************)
(* The counters of the coordinator and of the tokenizers (SpecRoute)       *)
(***************************************************************************)
\* no response handler is in progress
NoHandlerInProgress == \A h \in CrawlHandlers : rpc[h] = "idle"

\* C39: at every quiescent point (no response handler in progress) the
\* coordinator's fast count equals the fast tokenizer's pages-processed
\* count and its slow count equals the slow tokenizer's pages-processed
\* count, also in runs where a response handler panicked inside a tokenizer
\* and was recovered.
C39_RoutedEqualsProcessed ==
    NoHandlerInProgress =>
        /\ fastPathCount = fastPagesProcessed
        /\ slowPathCount = slowPagesProcessed

\* C39 as amended: at every quiescent point the fast count equals the fast
\* tokenizer's pages-processed count, and the slow count equals the slow
\* tokenizer's pages-processed count plus the number of response handlers
\* that panicked inside the slow tokenizer and were recovered.
C39_RoutedEqualsProcessedOrPanicked ==
    NoHandlerInProgress =>
        /\ fastPathCount = fastPagesProcessed
        /\ slowPathCount = slowPagesProcessed + panicCount

\* two pages were routed, one to each path: the fast one was processed, the
\* handler of the slow one panicked in the tokenizer and was recovered
C39_Witness ==
    /\ NoHandlerInProgress
    /\ fastPathCount = 1
    /\ fastPagesProcessed = 1
    /\ slowPathCount = 1
    /\ slowPagesProcessed = 0
    /\ panicCount = 1

(***************************************************************************)
(* The indices the fast path tests (SpecTok)                               *)
(***************************************************************************)
\* the result of a scan that tests every index of the body
ScanEveryIndex(htmlBytes, baseURL) ==
    ScanFrom(htmlBytes, baseURL, 0,
             [URLs |-> << >>, from |-> << >>, at |-> << >>, panicked |-> FALSE], 0)

\* C40: the fast-path scan tests every index of the body: each href=
\* occurrence with a non-empty, non-filtered value yields its URL wherever
\* it occurs, also one that starts within the last six bytes of the body,
\* such as a body ending in an unquoted href=a.
C40_EveryIndexTested ==
    fastResult # << >> =>
        fastResult[1].URLs = ScanEveryIndex(Body(tokPage), tokBase).URLs

====
